---- MODULE Spec2Model ----
(***************************************************************************)
(* The dungeon-crawler core of csc-121/game-beta as a state machine:       *)
(* models/dungeon.py (Room, Dungeon), the callers of the dungeon in        *)
(* game_app.py (movement, combat end, treasure, shop, load), and the       *)
(* health of the combatants of models/character.py and models/enemy.py,    *)
(* the progression of the Character, and the resolver of models/combat.py. *)
(***************************************************************************)
EXTENDS Integers, Sequences, FiniteSets, TLC

VARIABLES
    pc,           \* position in Dungeon.__init__: "maze", "populate", "treasure",
                  \* "merchant", "end_room", then "ready" (the object is built)
    tier,         \* Dungeon._tier
    player_pos,   \* Dungeon._player_pos, <<x, y>>
    rooms,        \* Dungeon._rooms; rooms[<<x, y>>] is the source's _rooms[y][x]
    stack,        \* the active carve_path calls, innermost last
    visited,      \* carve_path's visited set
    game_state,   \* GameApp._game_state
    health,       \* current_health of the combatant under test
    max_health,   \* Character.max_health / Enemy.health of that combatant
    kind,         \* "character" or "enemy": which class the combatant is
    last_call,    \* the last take_damage / heal call on it, with what it returned
    character,    \* the player's Character object
    enemy,        \* the Enemy object of the encounter
    result,       \* the last call under test: its arguments, the objects
                  \* before it, and what it returned
    merchant,     \* Merchant._inventory, the stock, in list order
    window,       \* the CombatWindow of the running encounter
    dialog        \* the modal window open over the game: "inventory",
                  \* "merchant" or "none"

dungeonVars == <<pc, tier, player_pos, rooms, stack, visited, game_state>>
combatantVars == <<health, max_health, kind, last_call>>
combatVars == <<character, enemy, result>>
sessionVars == <<merchant, window, dialog>>
vars == <<pc, tier, player_pos, rooms, stack, visited, game_state,
          health, max_health, kind, last_call, character, enemy, result,
          merchant, window, dialog>>

----------------------------------------------------------------------------
(* Program constants *)

MIN_DUNGEON_SIZE == 5
view_range == 4
REQUIRED_EXPLORATION_PERCENT == 75
MAX_TIER == 6

(* Bounds of the model *)

\* random.shuffle is unconstrained in the first MaxFreeCarves carve_path calls;
\* later calls keep the order in which the source lists the directions.
MaxFreeCarves == 2
\* The spawn roll may succeed only in the last MaxSpawnRooms rooms of the scan.
MaxSpawnRooms == 1
\* random.randrange / random.choice over a candidate list picks among its
\* first MaxPick entries.
MaxPick == 1
\* In a crowded dungeon at most MaxSpareRooms rooms are left without an enemy.
MaxSpareRooms == 2
\* Largest tier of a dungeon whose generation is followed on its own.
MaxTier == 2
\* Largest max_health of a combatant, and largest amount passed to
\* take_damage / heal.
MaxHealth == 3
MaxAmount == 4

\* The dungeon side: the smallest grid the constructor accepts.
Size == MIN_DUNGEON_SIZE

Coords == 0 .. (Size - 1)
Cells == Coords \X Coords
Directions == {"north", "south", "east", "west"}
\* A direction argument the direction_map does not know.
DirectionArgs == Directions \cup {"up"}

StartCell == <<0, 0>>

----------------------------------------------------------------------------
(* Room and grid helpers *)

NoDoors == [d \in Directions |-> FALSE]

\* Room(): the dataclass defaults.
NewRoom ==
    [enemies |-> <<>>, is_cleared |-> FALSE, is_visible |-> FALSE,
     has_merchant |-> FALSE, merchant_visited |-> FALSE,
     has_treasure |-> FALSE, treasure_looted |-> FALSE,
     is_end_room |-> FALSE, doors |-> NoDoors]

\* direction_map of move_player; carve_path lists the same offsets.
Delta(d) ==
    CASE d = "north" -> <<0, -1>>
      [] d = "south" -> <<0, 1>>
      [] d = "east"  -> <<1, 0>>
      [] d = "west"  -> <<-1, 0>>

\* dir2 of carve_path's direction tuples.
Opposite(d) ==
    CASE d = "north" -> "south"
      [] d = "south" -> "north"
      [] d = "east"  -> "west"
      [] d = "west"  -> "east"

Step(c, d) == <<c[1] + Delta(d)[1], c[2] + Delta(d)[2]>>

validate_position(x, y) == 0 <= x /\ x < Size /\ 0 <= y /\ y < Size

InBounds(c) == validate_position(c[1], c[2])

Abs(n) == IF n < 0 THEN -n ELSE n

Min(a, b) == IF a < b THEN a ELSE b

Max(a, b) == IF a > b THEN a ELSE b

calculate_manhattan_distance(p, q) == Abs(p[1] - q[1]) + Abs(p[2] - q[2])

\* Row-major scan position of a cell: for y in range(size): for x in range(size).
ScanIndex(c) == c[2] * Size + c[1]

\* Position in the comprehension "for x in range(size) for y in range(size)".
ListIndex(c) == c[1] * Size + c[2]

----------------------------------------------------------------------------
(* Dungeon.__init__: the player position *)

\* The constructor's clamp without its upper limit.
ClampPosLowOnly(p) == <<Max(0, p[1]), Max(0, p[2])>>

\* The constructor's clamp of a given player_pos pair.
ClampPos(p) ==
    <<Min(Max(0, p[1]), Size - 1), Min(Max(0, p[2]), Size - 1)>>

\* Coordinates a caller or a save file may pass.
PosArgs == {<<-1, -1>>, <<Size, 2>>, <<Size, Size + 1>>}
\* player_pos arguments tried for a dungeon built without saved rooms.
GenPosArgs == {<<-1, 2>>}

----------------------------------------------------------------------------
(* _generate_maze *)

\* The order in which carve_path lists the directions before shuffling.
ListedOrder == <<"south", "north", "east", "west">>

\* carve_path with its bounds test one short: new_x, new_y < size - 1.
CarveDirsShortGrid(c) ==
    {d \in Directions :
        /\ Step(c, d)[1] \in 0..(Size - 2)
        /\ Step(c, d)[2] \in 0..(Size - 2)
        /\ Step(c, d) \notin visited}

\* The directions carve_path's loop would carve from cell c: the neighbour
\* is in bounds and not visited.
CarveDirs(c) ==
    {d \in Directions : InBounds(Step(c, d)) /\ Step(c, d) \notin visited}

FirstListed(ds) ==
    ListedOrder[CHOOSE i \in 1..4 :
        /\ ListedOrder[i] \in ds
        /\ \A j \in 1..(i - 1) : ListedOrder[j] \notin ds]

\* The direction the loop reaches first among those it can carve: any of them
\* under a free shuffle, the first listed one otherwise.
ShuffleFirst(ds) ==
    IF Cardinality(visited) <= MaxFreeCarves THEN ds ELSE {FirstListed(ds)}

\* carve_path opening only the door of the room it leaves.
OpenDoorsOneSide(rs, c, d) == [rs EXCEPT ![c].doors[d] = TRUE]

\* rooms[y][x].doors[dir1] = True; rooms[new_y][new_x].doors[dir2] = True
OpenDoors(rs, c, d) ==
    [rs EXCEPT ![c].doors[d] = TRUE, ![Step(c, d)].doors[Opposite(d)] = TRUE]

\* One iteration of the innermost carve_path that carves and recurses.
CarveStep ==
    /\ pc = "maze"
    /\ stack # <<>>
    /\ LET c == stack[Len(stack)] IN
        /\ CarveDirs(c) # {}
        /\ \E d \in ShuffleFirst(CarveDirs(c)) :
            /\ rooms' = OpenDoors(rooms, c, d)
            /\ visited' = visited \cup {Step(c, d)}
            /\ stack' = Append(stack, Step(c, d))
    /\ UNCHANGED <<pc, tier, player_pos, game_state>>
    /\ UNCHANGED <<combatantVars, combatVars, sessionVars>>

\* The innermost carve_path has no direction left to carve and returns.
CarveReturn ==
    /\ pc = "maze"
    /\ stack # <<>>
    /\ CarveDirs(stack[Len(stack)]) = {}
    /\ stack' = SubSeq(stack, 1, Len(stack) - 1)
    /\ pc' = IF Len(stack) = 1 THEN "populate" ELSE "maze"
    /\ UNCHANGED <<tier, player_pos, rooms, visited, game_state>>
    /\ UNCHANGED <<combatantVars, combatVars, sessionVars>>

----------------------------------------------------------------------------
(* _populate_rooms, _place_treasure_rooms, _place_merchant *)

\* The rooms whose spawn roll may succeed (never the starting room).
SpawnRooms ==
    {c \in Cells : c # StartCell /\ ScanIndex(c) >= Size * Size - MaxSpawnRooms}

\* rooms[y][x].enemies.append(enemy) in every room of S.
AddEnemies(rs, S) ==
    [c \in Cells |->
        IF c \in S THEN [rs[c] EXCEPT !.enemies = Append(@, "enemy")] ELSE rs[c]]

\* _populate_rooms() when the spawn roll succeeds in the rooms of S.
PopulateRoomsWith(S) ==
    /\ pc = "populate"
    /\ rooms' = AddEnemies(rooms, S)
    /\ pc' = "treasure"
    /\ UNCHANGED <<tier, player_pos, stack, visited, game_state>>
    /\ UNCHANGED <<combatantVars, combatVars, sessionVars>>

PopulateRooms == \E S \in SUBSET SpawnRooms : PopulateRoomsWith(S)

\* The crowded outcomes of _populate_rooms: the spawn roll succeeds in every
\* room but the start, or fails only in some of the first MaxSpareRooms rooms
\* the candidate lists of the treasure and the merchant would hold.
SpareRooms == {c \in Cells : c # StartCell /\ ListIndex(c) <= MaxSpareRooms}
CrowdedSpawns == {(Cells \ {StartCell}) \ F : F \in SUBSET SpareRooms}

\* All cells in the order of "for x in range(size) for y in range(size)".
CellList == [i \in 1..(Size * Size) |-> <<(i - 1) \div Size, (i - 1) % Size>>]

\* empty_rooms of _place_treasure_rooms without the test for the start.
TreasureCandidateAnyRoom(rs, c) == rs[c].enemies = <<>>

\* empty_rooms of _place_treasure_rooms.
TreasureCandidate(rs, c) == c # StartCell /\ rs[c].enemies = <<>>

\* empty_rooms of _place_merchant without the test for a treasure.
MerchantCandidateWithTreasure(rs, c) == c # StartCell /\ rs[c].enemies = <<>>

\* empty_rooms of _place_merchant.
MerchantCandidate(rs, c) ==
    c # StartCell /\ rs[c].enemies = <<>> /\ ~rs[c].has_treasure

TreasureList(rs) == SelectSeq(CellList, LAMBDA c : TreasureCandidate(rs, c))

MerchantList(rs) == SelectSeq(CellList, LAMBDA c : MerchantCandidate(rs, c))

\* list.pop(i)
Pop(list, i) == SubSeq(list, 1, i - 1) \o SubSeq(list, i + 1, Len(list))

\* The indices random.randrange(len(list)) / random.choice(list) may pick.
PickIndices(list) == 1 .. Min(Len(list), MaxPick)

\* The sets of rooms the loop "for _ in range(num_treasures)" can pop.
RECURSIVE TreasurePicks(_, _)
TreasurePicks(list, n) ==
    IF n = 0 \/ list = <<>>
    THEN {{}}
    ELSE UNION {{{list[i]} \cup T : T \in TreasurePicks(Pop(list, i), n - 1)} :
                i \in PickIndices(list)}

PlaceTreasureRooms ==
    /\ pc = "treasure"
    /\ \E num_treasures \in 1..tier :
       \E T \in TreasurePicks(TreasureList(rooms), num_treasures) :
            rooms' = [c \in Cells |->
                        IF c \in T THEN [rooms[c] EXCEPT !.has_treasure = TRUE]
                        ELSE rooms[c]]
    /\ pc' = "merchant"
    /\ UNCHANGED <<tier, player_pos, stack, visited, game_state>>
    /\ UNCHANGED <<combatantVars, combatVars, sessionVars>>

PlaceMerchant ==
    /\ pc = "merchant"
    /\ LET list == MerchantList(rooms) IN
        IF list = <<>>
        THEN rooms' = rooms
        ELSE \E i \in PickIndices(list) :
                rooms' = [rooms EXCEPT ![list[i]].has_merchant = TRUE]
    /\ pc' = "end_room"
    /\ UNCHANGED <<tier, player_pos, stack, visited, game_state>>
    /\ UNCHANGED <<combatantVars, combatVars, sessionVars>>

----------------------------------------------------------------------------
(* _place_end_room, _update_visibility, the end of _generate_dungeon *)

\* The cell at row-major scan position i.
ScanCell(i) == <<i % Size, i \div Size>>

\* The scan loop of _place_end_room from position i on: best is
\* farthest_room (<<>> for None), maxd is max_distance.
RECURSIVE FarthestFrom(_, _, _, _)
FarthestFrom(i, best, maxd, pos) ==
    IF i = Size * Size
    THEN best
    ELSE LET distance == calculate_manhattan_distance(ScanCell(i), pos) IN
         IF distance > maxd
         THEN FarthestFrom(i + 1, ScanCell(i), distance, pos)
         ELSE FarthestFrom(i + 1, best, maxd, pos)

\* The scan loop of _place_end_room with >= for >: the last maximum wins.
RECURSIVE FarthestLast(_, _, _, _)
FarthestLast(i, best, maxd, pos) ==
    IF i = Size * Size
    THEN best
    ELSE LET distance == calculate_manhattan_distance(ScanCell(i), pos) IN
         IF distance >= maxd
         THEN FarthestLast(i + 1, ScanCell(i), distance, pos)
         ELSE FarthestLast(i + 1, best, maxd, pos)

\* farthest_room when ties go to the last room scanned.
FarthestRoomLast(pos) == FarthestLast(0, <<>>, 0, pos)

\* farthest_room of _place_end_room.
FarthestRoom(pos) == FarthestFrom(0, <<>>, 0, pos)

place_end_room(rs, pos) ==
    IF FarthestRoom(pos) # <<>>
    THEN [rs EXCEPT ![FarthestRoom(pos)].is_end_room = TRUE]
    ELSE rs

\* The visibility test with a strict comparison.
InViewStrict(dx, dy) == dx * dx + dy * dy < view_range * view_range

\* The circular-visibility test of _update_visibility for offset (dx, dy).
InView(dx, dy) == dx * dx + dy * dy <= view_range * view_range

\* _update_visibility with the player at pos.
update_visibility(rs, pos) ==
    [c \in Cells |->
        IF InView(c[1] - pos[1], c[2] - pos[2])
        THEN [rs[c] EXCEPT !.is_visible = TRUE]
        ELSE rs[c]]

\* _place_end_room, rooms[0][0].is_visible = True, _update_visibility: the
\* constructor returns. A new game then calls _start_game.
PlaceEndRoom ==
    /\ pc = "end_room"
    /\ rooms' = update_visibility(
                    [place_end_room(rooms, player_pos)
                        EXCEPT ![StartCell].is_visible = TRUE],
                    player_pos)
    /\ pc' = "ready"
    /\ game_state' = IF game_state = "menu" THEN "playing" ELSE game_state
    /\ UNCHANGED <<tier, player_pos, stack, visited>>
    /\ UNCHANGED <<combatantVars, combatVars, sessionVars>>

----------------------------------------------------------------------------
(* Dungeon: movement and completion *)

\* current_room.doors.get(direction, False)
DoorOpen(rs, pos, d) == d \in DOMAIN rs[pos].doors /\ rs[pos].doors[d]

\* move_player without its door test.
CanMoveThroughWalls(rs, pos, d) ==
    /\ d \in Directions
    /\ InBounds(Step(pos, d))

\* move_player's test that lets the move happen: the door, the direction_map
\* lookup and the bounds check, in the source's order.
CanMove(rs, pos, d) ==
    /\ DoorOpen(rs, pos, d)
    /\ d \in Directions
    /\ InBounds(Step(pos, d))

\* move_player(direction) on a dungeon with rooms rs and the player at pos:
\* the value returned and the dungeon afterwards.
move_player(rs, pos, d) ==
    IF CanMove(rs, pos, d)
    THEN [ret |-> TRUE, pos |-> Step(pos, d),
          rooms |-> update_visibility(rs, Step(pos, d))]
    ELSE [ret |-> FALSE, pos |-> pos, rooms |-> rs]

\* available_directions of move_player_random_adjacent.
available_directions(rs, pos) == {d \in Directions : rs[pos].doors[d]}

visible_rooms(rs) == Cardinality({c \in Cells : rs[c].is_visible})

\* get_exploration_percentage() >= p. The source computes
\* (visible_rooms / total_rooms) * 100 in floating point, which decides this
\* comparison exactly for every grid the constructor accepts.
ExplorationAtLeast(rs, p) == visible_rooms(rs) * 100 >= p * (Size * Size)

\* is_complete without the is_cleared test.
is_complete_uncleared(rs, pos) ==
    /\ rs[pos].is_end_room
    /\ ExplorationAtLeast(rs, REQUIRED_EXPLORATION_PERCENT)

is_complete(rs, pos) ==
    /\ rs[pos].is_end_room
    /\ rs[pos].is_cleared
    /\ ExplorationAtLeast(rs, REQUIRED_EXPLORATION_PERCENT)

----------------------------------------------------------------------------
(* GameApp: the handlers that drive the dungeon *)

\* RoomEvent looking for the treasure before the enemy.
RoomEventTreasureFirst(room) ==
    IF room.has_treasure /\ ~room.treasure_looted THEN "treasure"
    ELSE IF room.enemies # <<>> /\ ~room.is_cleared THEN "combat"
    ELSE IF room.has_merchant /\ ~room.merchant_visited THEN "shop"
    ELSE "none"

\* The room event _handle_movement triggers after a successful move, by
\* priority: _start_combat, _handle_treasure, _handle_shop, or none.
RoomEvent(room) ==
    IF room.enemies # <<>> /\ ~room.is_cleared THEN "combat"
    ELSE IF room.has_treasure /\ ~room.treasure_looted THEN "treasure"
    ELSE IF room.has_merchant /\ ~room.merchant_visited THEN "shop"
    ELSE "none"

\* _handle_treasure: room.treasure_looted = True
AfterEvent(rs, pos) ==
    IF RoomEvent(rs[pos]) = "treasure"
    THEN [rs EXCEPT ![pos].treasure_looted = TRUE]
    ELSE rs

\* No CombatWindow is open.
NoWindow ==
    [open |-> FALSE, combat_ended |-> FALSE, buttons |-> FALSE, timers |-> {},
     close |-> {}, rewarded |-> 0]

\* CombatWindow(master, character, enemy, combat_system, on_combat_end), as
\* __init__ leaves it: the action buttons enabled, no callback scheduled with
\* after(), no Close button. close collects the outcomes of the Close
\* buttons handle_combat_end has packed; rewarded counts the calls of
\* distribute_rewards this window has made.
NewWindow ==
    [open |-> TRUE, combat_ended |-> FALSE, buttons |-> TRUE, timers |-> {},
     close |-> {}, rewarded |-> 0]

\* _start_combat(current_room.enemies[0]) opens the combat window; the other
\* room events leave the windows as they are.
WindowAfterEvent(room, w) ==
    IF RoomEvent(room) = "combat" THEN NewWindow ELSE w

\* _handle_shop opens the merchant window with show_merchant_ui; the other
\* room events open no modal window.
DialogAfterEvent(room, dl) ==
    IF RoomEvent(room) = "shop" THEN "merchant" ELSE dl

\* _start_combat and _handle_shop set the game state.
StateAfterEvent(room, gs) ==
    CASE RoomEvent(room) = "combat" -> "combat"
      [] RoomEvent(room) = "shop"   -> "shopping"
      [] OTHER                      -> gs

\* next_tier of _handle_dungeon_completion.
NextTier(t) == Min(t + 1, MAX_TIER)

\* _handle_movement(direction) on the dungeon, the game state and the
\* windows. A completed dungeon is replaced by Dungeon(tier=next_tier), a new
\* object at the start of its constructor; this specification follows one
\* dungeon and leaves the new one there.
MoveAndTrigger(d) ==
    /\ pc = "ready"
    /\ game_state = "playing"
    /\ LET m == move_player(rooms, player_pos, d) IN
        IF ~m.ret
        THEN UNCHANGED <<dungeonVars, window, dialog>>
        ELSE LET rs == AfterEvent(m.rooms, m.pos)
                 gs == StateAfterEvent(m.rooms[m.pos], game_state)
                 w == WindowAfterEvent(m.rooms[m.pos], window)
                 dl == DialogAfterEvent(m.rooms[m.pos], dialog)
             IN IF is_complete(rs, m.pos)
                THEN /\ tier' = NextTier(tier)
                     /\ pc' = "replaced"
                     /\ player_pos' = StartCell
                     /\ rooms' = [c \in Cells |-> NewRoom]
                     /\ stack' = <<StartCell>>
                     /\ visited' = {StartCell}
                     /\ game_state' = gs
                     /\ window' = w
                     /\ dialog' = dl
                ELSE /\ player_pos' = m.pos
                     /\ rooms' = rs
                     /\ game_state' = gs
                     /\ window' = w
                     /\ dialog' = dl
                     /\ UNCHANGED <<pc, tier, stack, visited>>

\* _handle_movement(direction) where the player's own record is not
\* followed.
HandleMovement(d) ==
    /\ MoveAndTrigger(d)
    /\ UNCHANGED <<combatantVars, combatVars, merchant>>

\* move_player_random_adjacent choosing among all four directions, open door
\* or not.
move_player_any_direction(rs, pos) ==
    {move_player(rs, pos, d) : d \in Directions}

\* move_player_random_adjacent(): the dungeons it can leave behind.
move_player_random_adjacent(rs, pos) ==
    IF available_directions(rs, pos) = {}
    THEN {[ret |-> FALSE, pos |-> pos, rooms |-> rs]}
    ELSE {move_player(rs, pos, d) : d \in available_directions(rs, pos)}

\* _handle_combat_end treating every outcome as it treats 'defeat': the
\* dungeon is left as it is.
HandleCombatEndLeavesRoom(outcome) ==
    /\ pc = "ready"
    /\ game_state = "combat"
    /\ game_state' = "playing"
    /\ window' = NoWindow
    /\ UNCHANGED <<player_pos, rooms>>
    /\ UNCHANGED <<pc, tier, stack, visited>>
    /\ UNCHANGED <<combatantVars, combatVars, merchant, dialog>>

\* CombatWindow.end_combat(outcome): _handle_combat_end(outcome), then the
\* window is destroyed, and with it the callbacks it had scheduled.
HandleCombatEnd(outcome) ==
    /\ pc = "ready"
    /\ game_state = "combat"
    /\ game_state' = "playing"
    /\ window' = NoWindow
    /\ CASE outcome = "victory" ->
                /\ rooms' = [rooms EXCEPT ![player_pos].is_cleared = TRUE,
                                          ![player_pos].enemies = <<>>]
                /\ UNCHANGED player_pos
         [] outcome = "fled" ->
                \E m \in move_player_random_adjacent(rooms, player_pos) :
                    /\ player_pos' = m.pos
                    /\ rooms' = m.rooms
         [] OTHER -> UNCHANGED <<player_pos, rooms>>
    /\ UNCHANGED <<pc, tier, stack, visited>>
    /\ UNCHANGED <<combatantVars, combatVars, merchant, dialog>>

\* _handle_inventory(), bound to the i key of the game window: the key
\* reaches it while no modal window holds the grab. show_inventory_ui opens
\* the inventory window.
HandleInventory ==
    /\ pc = "ready"
    /\ dialog = "none"
    /\ game_state # "combat"
    /\ game_state' = "inventory"
    /\ dialog' = "inventory"
    /\ UNCHANGED <<pc, tier, player_pos, rooms, stack, visited>>
    /\ UNCHANGED <<combatantVars, combatVars, merchant, window>>

\* on_closing of the inventory window: the grab is released and the window
\* destroyed; the game state is not assigned.
CloseInventoryWindow ==
    /\ pc = "ready"
    /\ dialog = "inventory"
    /\ dialog' = "none"
    /\ UNCHANGED dungeonVars
    /\ UNCHANGED <<combatantVars, combatVars, merchant, window>>

\* on_closing of the merchant window: current_room.merchant_visited = True,
\* then the window is destroyed; the game state is not assigned.
CloseMerchantWindow ==
    /\ pc = "ready"
    /\ dialog = "merchant"
    /\ rooms' = [rooms EXCEPT ![player_pos].merchant_visited = TRUE]
    /\ dialog' = "none"
    /\ UNCHANGED <<pc, tier, player_pos, stack, visited, game_state>>
    /\ UNCHANGED <<combatantVars, combatVars, merchant, window>>

\* _load_save_file on a save of the current dungeon whose player_pos is the
\* pair p: Dungeon(**save_data['dungeon']) with the saved rooms, _start_game.
LoadGame(p) ==
    /\ pc = "ready"
    /\ dialog = "none"
    /\ game_state # "combat"
    /\ player_pos' = ClampPos(p)
    /\ game_state' = "playing"
    /\ UNCHANGED <<pc, tier, rooms, stack, visited>>
    /\ UNCHANGED <<combatantVars, combatVars, sessionVars>>

----------------------------------------------------------------------------
(* Character, Enemy and the catalogue rows they load their stats from *)

\* Python's None: a missing catalogue row, an empty equipment slot, no item.
None == [name |-> "None"]

\* The rows of player_tiers the model plays with: three tiers, the second
\* doubling the health of the first.
TierCatalog ==
    (1 :> [tier |-> 1, attack |-> 5, defense |-> 1, health |-> 50, min_xp |-> 0])
    @@ (2 :> [tier |-> 2, attack |-> 7, defense |-> 2, health |-> 100, min_xp |-> 2])
    @@ (3 :> [tier |-> 3, attack |-> 9, defense |-> 3, health |-> 100, min_xp |-> 4])

\* Database.get_tier_data(tier)
get_tier_data(t) == IF t \in DOMAIN TierCatalog THEN TierCatalog[t] ELSE None

\* The items of the model: a healing potion ('heal_2') and a buff.
Potion ==
    [name |-> "Lesser Health Potion", type |-> "consumable", heal |-> 2,
     price_copper |-> 10]
Tonic == [name |-> "Tonic", type |-> "buff", heal |-> 0, price_copper |-> 1]
\* A weapon with base_damage_min 1 and base_damage_max 4.
Sword == [name |-> "Sword", base_damage_min |-> 1, base_damage_max |-> 4]

\* Character(name, age, tier=t, xp=x, current_health=h, inventory=inv,
\* equipped_weapon=w): __post_init__ loads the stats of the tier.
Character(t, x, h, inv, w) ==
    [class |-> "Character", tier |-> t, xp |-> x,
     current_health |-> h,
     max_health |-> get_tier_data(t).health,
     base_attack |-> get_tier_data(t).attack,
     base_defense |-> get_tier_data(t).defense,
     inventory |-> inv, equipped_weapon |-> w, money |-> 100,
     is_player |-> TRUE]

\* A new Character: Character(name, age), at the full health of tier 1.
NewCharacter == Character(1, 0, get_tier_data(1).health, <<>>, None)

\* Enemy(name, tier, current_health=h) with the stats of its enemies row.
Enemy(row, h) ==
    [class |-> "Enemy", name |-> row.name,
     current_health |-> h,
     health |-> row.health, attack |-> row.attack, defense |-> row.defense,
     xp_value |-> row.xp_value,
     min_copper |-> row.min_copper, max_copper |-> row.max_copper,
     is_player |-> FALSE]

\* The rows of enemies the model plays with: one the player can hit and hurt,
\* one armoured far beyond the player's attack.
EnemyCatalog ==
    {[name |-> "Goblin", attack |-> 3, defense |-> 4, health |-> 4, xp_value |-> 2,
      min_copper |-> 2, max_copper |-> 2],
     [name |-> "Golem", attack |-> 0, defense |-> 41, health |-> 2, xp_value |-> 5,
      min_copper |-> 0, max_copper |-> 0]}

\* The goblin at full health.
NewEnemy ==
    LET row == CHOOSE r \in EnemyCatalog : r.name = "Goblin" IN Enemy(row, row.health)

\* No add_xp or process_turn call yet.
NoResult == [op |-> "none"]

\* Merchant._inventory = []: a merchant with nothing in stock.
NoStock == <<>>

----------------------------------------------------------------------------
(* The game: a dungeon is built, then driven by the handlers *)

NoCall == [op |-> "none", amount |-> 0, before |-> 0, alive |-> TRUE, healed |-> 0]

Init ==
    /\ pc = "maze"
    /\ tier = 1
    /\ player_pos \in {StartCell} \cup {ClampPos(p) : p \in GenPosArgs}
    /\ rooms = [c \in Cells |-> NewRoom]
    /\ stack = <<StartCell>>
    /\ visited = {StartCell}
    /\ game_state = "menu"
    /\ health = 1
    /\ max_health = 1
    /\ kind = "character"
    /\ last_call = NoCall
    /\ character = NewCharacter
    /\ enemy = NewEnemy
    /\ result = NoResult
    /\ merchant = NoStock
    /\ window = NoWindow
    /\ dialog = "none"

Next ==
    \/ CarveStep
    \/ CarveReturn
    \/ PopulateRooms
    \/ PlaceTreasureRooms
    \/ PlaceMerchant
    \/ PlaceEndRoom
    \/ \E d \in DirectionArgs : HandleMovement(d)
    \/ \E outcome \in {"victory", "defeat", "fled"} : HandleCombatEnd(outcome)
    \/ HandleInventory
    \/ CloseInventoryWindow
    \/ CloseMerchantWindow
    \/ \E p \in PosArgs \cup {player_pos} : LoadGame(p)

Spec == Init /\ [][Next]_vars

\* Generation on its own: Dungeon(tier, size, player_pos) built without saved
\* rooms, for the tiers up to MaxTier.
InitGeneration ==
    /\ pc = "maze"
    /\ tier \in 1..MaxTier
    /\ player_pos \in {StartCell} \cup {ClampPos(p) : p \in GenPosArgs}
    /\ rooms = [c \in Cells |-> NewRoom]
    /\ stack = <<StartCell>>
    /\ visited = {StartCell}
    /\ game_state = "menu"
    /\ health = 1
    /\ max_health = 1
    /\ kind = "character"
    /\ last_call = NoCall
    /\ character = NewCharacter
    /\ enemy = NewEnemy
    /\ result = NoResult
    /\ merchant = NoStock
    /\ window = NoWindow
    /\ dialog = "none"

NextGeneration ==
    \/ CarveStep
    \/ CarveReturn
    \/ PopulateRooms
    \/ \E S \in CrowdedSpawns : PopulateRoomsWith(S)
    \/ PlaceTreasureRooms
    \/ PlaceMerchant
    \/ PlaceEndRoom

SpecGeneration == InitGeneration /\ [][NextGeneration]_vars

----------------------------------------------------------------------------
(* Combatants: Character and Enemy health *)

\* take_damage without the clamp at 0.
take_damage_unclamped(h, damage) ==
    IF damage < 0
    THEN [health |-> h, ret |-> TRUE]
    ELSE [health |-> h - damage, ret |-> h - damage > 0]

\* Character.take_damage(damage) at current_health h: the health afterwards
\* and the value returned. A negative amount raises inside the try block and
\* the handler returns True.
character_take_damage(h, damage) ==
    IF damage < 0
    THEN [health |-> h, ret |-> TRUE]
    ELSE [health |-> Max(0, h - damage), ret |-> Max(0, h - damage) > 0]

\* take_damage returning current_health >= 0.
take_damage_ge(h, damage) ==
    IF damage < 0
    THEN [health |-> h, ret |-> TRUE]
    ELSE [health |-> Max(0, h - damage), ret |-> Max(0, h - damage) >= 0]

\* Enemy.take_damage(damage)
enemy_take_damage(h, damage) ==
    IF damage < 0
    THEN [health |-> h, ret |-> TRUE]
    ELSE [health |-> Max(0, h - damage), ret |-> Max(0, h - damage) > 0]

\* heal returning the amount asked for instead of the amount healed.
heal_returns_request(h, m, amount) ==
    IF amount < 0
    THEN [health |-> h, ret |-> 0]
    ELSE [health |-> Min(m, h + amount), ret |-> amount]

\* Character.heal(amount) at current_health h with max_health m.
character_heal(h, m, amount) ==
    IF amount < 0
    THEN [health |-> h, ret |-> 0]
    ELSE [health |-> Min(m, h + amount), ret |-> Min(m, h + amount) - h]

\* Enemy.heal(amount) at current_health h with health (the maximum) m.
enemy_heal(h, m, amount) ==
    IF amount < 0
    THEN [health |-> h, ret |-> 0]
    ELSE [health |-> Min(m, h + amount), ret |-> Min(m, h + amount) - h]

\* Amounts a caller may pass, negative ones included.
AmountArgs == (-2) .. MaxAmount

TakeDamage(damage) ==
    /\ LET r == IF kind = "character"
                THEN character_take_damage(health, damage)
                ELSE enemy_take_damage(health, damage)
       IN /\ health' = r.health
          /\ last_call' = [op |-> "take_damage", amount |-> damage,
                           before |-> health, alive |-> r.ret, healed |-> 0]
    /\ UNCHANGED <<max_health, kind>>
    /\ UNCHANGED <<dungeonVars, combatVars, sessionVars>>

Heal(amount) ==
    /\ LET r == IF kind = "character"
                THEN character_heal(health, max_health, amount)
                ELSE enemy_heal(health, max_health, amount)
       IN /\ health' = r.health
          /\ last_call' = [op |-> "heal", amount |-> amount,
                           before |-> health, alive |-> TRUE, healed |-> r.ret]
    /\ UNCHANGED <<max_health, kind>>
    /\ UNCHANGED <<dungeonVars, combatVars, sessionVars>>

\* A combatant as constructed: at full health, or rebuilt from a snapshot
\* whose current_health lies in 0..max_health.
InitCombatant ==
    /\ kind \in {"character", "enemy"}
    /\ max_health \in 1..MaxHealth
    /\ health \in 0..max_health
    /\ last_call = NoCall
    /\ character = NewCharacter
    /\ enemy = NewEnemy
    /\ result = NoResult
    /\ merchant = NoStock
    /\ window = NoWindow
    /\ dialog = "none"
    /\ pc = "none"
    /\ tier = 1
    /\ player_pos = StartCell
    /\ rooms = [c \in Cells |-> NewRoom]
    /\ stack = <<>>
    /\ visited = {}
    /\ game_state = "menu"

NextCombatant ==
    \/ \E damage \in AmountArgs : TakeDamage(damage)
    \/ \E amount \in AmountArgs : Heal(amount)

SpecCombatant == InitCombatant /\ [][NextCombatant]_vars

----------------------------------------------------------------------------
(* Character: experience and tiers *)

\* Largest xp followed, and largest amount passed to add_xp.
MaxXp == 8
MaxXpGain == 5

\* The (old max_health, current_health, new max_health) triples over the
\* catalogue's health values for which the double max_health * (current_health
\* / old_health) is below the integer max_health * current_health / old_health:
\* 100 * (29 / 50) is 57.99999999999999, and int() of it is 57.
FloatShortfall ==
    {<<50, 29, 100>>, <<100, 29, 100>>, <<100, 57, 100>>, <<100, 58, 100>>}

\* health_percent = current_health / old_health;
\* int(max_health * health_percent), computed in doubles.
rescale_health(m, current_health, old_health) ==
    IF <<old_health, current_health, m>> \in FloatShortfall
    THEN (m * current_health) \div old_health - 1
    ELSE (m * current_health) \div old_health

\* Character._level_up(): the next tier's stats, health rescaled.
level_up(c) ==
    LET row == get_tier_data(c.tier + 1) IN
    [c EXCEPT !.tier = c.tier + 1,
              !.base_attack = row.attack,
              !.base_defense = row.defense,
              !.max_health = row.health,
              !.current_health =
                    rescale_health(row.health, c.current_health, c.max_health)]

\* Character._check_level_up()
check_level_up(c) ==
    LET next_tier_data == get_tier_data(c.tier + 1) IN
    IF next_tier_data # None /\ c.xp >= next_tier_data.min_xp
    THEN level_up(c)
    ELSE c

\* add_xp without the test for a negative amount.
add_xp_unchecked(c, xp_amount) ==
    check_level_up([c EXCEPT !.xp = c.xp + xp_amount])

\* Character.add_xp(xp_amount): the character afterwards.
add_xp(c, xp_amount) ==
    IF xp_amount < 0
    THEN c
    ELSE check_level_up([c EXCEPT !.xp = c.xp + xp_amount])

\* Amounts a caller may pass to add_xp, a negative one included.
XpArgs == (-1) .. MaxXpGain
\* Damage the character takes between grants.
DamageArgs == {-1, 1, 20}

AddXp(xp_amount) ==
    /\ character.xp + xp_amount <= MaxXp
    /\ character' = add_xp(character, xp_amount)
    /\ result' = [op |-> "add_xp", amount |-> xp_amount, before |-> character]
    /\ UNCHANGED <<enemy, dungeonVars, combatantVars, sessionVars>>

CharacterTakeDamage(damage) ==
    /\ character' = [character EXCEPT !.current_health =
                        character_take_damage(@, damage).health]
    /\ result' = [op |-> "take_damage", amount |-> damage, before |-> character]
    /\ UNCHANGED <<enemy, dungeonVars, combatantVars, sessionVars>>

\* A new Character, with everything else at rest.
InitCharacter ==
    /\ character = NewCharacter
    /\ enemy = NewEnemy
    /\ result = NoResult
    /\ merchant = NoStock
    /\ window = NoWindow
    /\ dialog = "none"
    /\ kind = "character"
    /\ max_health = 1
    /\ health = 1
    /\ last_call = NoCall
    /\ pc = "none"
    /\ tier = 1
    /\ player_pos = StartCell
    /\ rooms = <<>>
    /\ stack = <<>>
    /\ visited = {}
    /\ game_state = "menu"

NextCharacter ==
    \/ \E xp_amount \in XpArgs : AddXp(xp_amount)
    \/ \E damage \in DamageArgs : CharacterTakeDamage(damage)

SpecCharacter == InitCharacter /\ [][NextCharacter]_vars

----------------------------------------------------------------------------
(* D20CombatSystem: the resolver *)

\* roll_d20(): random.randint(1, 20)
Rolls == 1..20

\* calculate_total_attack() of either class. The Character adds the mean of
\* its weapon's damage range and truncates (all values are >= 0).
calculate_total_attack(c) ==
    IF c.class = "Character"
    THEN IF c.equipped_weapon # None
         THEN Max(0, (2 * c.base_attack + c.equipped_weapon.base_damage_min
                        + c.equipped_weapon.base_damage_max) \div 2)
         ELSE Max(0, c.base_attack)
    ELSE Max(0, c.attack)

\* calculate_total_defense() of either class; the model's characters wear no
\* armour or shield.
calculate_total_defense(c) ==
    IF c.class = "Character" THEN Max(0, c.base_defense) ELSE Max(0, c.defense)

\* attack_bonus += 2 for players
hit_bonus(attacker) == IF attacker.is_player THEN 2 ELSE 0

\* calculate_hit with the < of a missed comparison: roll + attack_bonus >
\* defense_class.
calculate_hit_strict(attacker, defender, roll) ==
    IF roll = 20 THEN [hit |-> TRUE, roll |-> roll, crit |-> TRUE]
    ELSE IF roll = 1 THEN [hit |-> FALSE, roll |-> roll, crit |-> FALSE]
    ELSE [hit |-> roll + calculate_total_attack(attacker) + hit_bonus(attacker)
                    > 10 + calculate_total_defense(defender),
          roll |-> roll, crit |-> FALSE]

\* calculate_hit(attacker, defender) when roll_d20() returns roll.
calculate_hit(attacker, defender, roll) ==
    IF roll = 20 THEN [hit |-> TRUE, roll |-> roll, crit |-> TRUE]
    ELSE IF roll = 1 THEN [hit |-> FALSE, roll |-> roll, crit |-> FALSE]
    ELSE [hit |-> roll + calculate_total_attack(attacker) + hit_bonus(attacker)
                    >= 10 + calculate_total_defense(defender),
          roll |-> roll, crit |-> FALSE]

\* The values random.uniform(min_dmg, max_dmg) is followed at, in halves of a
\* point: the two ends of the range and its middle; 0 without a weapon.
WeaponDraws(attacker) ==
    IF attacker.class = "Character" /\ attacker.equipped_weapon # None
    THEN {2 * attacker.equipped_weapon.base_damage_min,
          attacker.equipped_weapon.base_damage_min
            + attacker.equipped_weapon.base_damage_max,
          2 * attacker.equipped_weapon.base_damage_max}
    ELSE {0}

\* _calculate_damage taking the whole defense off instead of half of it.
calculate_damage_full_defense(attacker, defender, is_crit, draw) ==
    LET base2 == 2 * calculate_total_attack(attacker) + draw
        damage2 == Max(2, base2 - 2 * calculate_total_defense(defender))
        crit == IF is_crit THEN 2 ELSE 1
    IN IF attacker.is_player
       THEN Max(1, (6 * crit * damage2) \div 10)
       ELSE Max(1, (crit * damage2) \div 2)

\* _calculate_damage without the final max(1, .).
calculate_damage_unfloored(attacker, defender, is_crit, draw) ==
    LET base2 == 2 * calculate_total_attack(attacker) + draw
        damage2 == base2 - calculate_total_defense(defender)
        crit == IF is_crit THEN 2 ELSE 1
    IN IF attacker.is_player
       THEN (6 * crit * damage2) \div 10
       ELSE (crit * damage2) \div 2

\* _calculate_damage(attacker, defender, is_crit) when the weapon draw is
\* draw / 2. The source works in doubles; in halves of a point, with damage2
\* twice max(1, base_damage - defense / 2): int(damage * 2.0 * 1.2) is
\* 6 * 2 * damage2 div 10 (the doubles are exact on halves and quarters up
\* to 400, where the product by 1.2 never rounds up to an integer).
calculate_damage(attacker, defender, is_crit, draw) ==
    LET base2 == 2 * calculate_total_attack(attacker) + draw
        damage2 == Max(2, base2 - calculate_total_defense(defender))
        crit == IF is_crit THEN 2 ELSE 1
    IN IF attacker.is_player
       THEN Max(1, (6 * crit * damage2) \div 10)
       ELSE Max(1, (crit * damage2) \div 2)

\* defender.take_damage(damage) on the object.
take_damage(c, damage) ==
    [c EXCEPT !.current_health =
        IF c.class = "Character"
        THEN character_take_damage(@, damage).health
        ELSE enemy_take_damage(@, damage).health]

\* The result dictionary process_turn starts from.
NewResult ==
    [success |-> FALSE, damage_dealt |-> 0, item_used |-> None, fled |-> FALSE,
     messages |-> <<>>, roll_info |-> [is_crit |-> FALSE]]

\* _process_attack(attacker, defender): both objects afterwards and the
\* result process_turn returns.
process_attack(attacker, defender, roll, draw) ==
    LET h == calculate_hit(attacker, defender, roll)
        damage == calculate_damage(attacker, defender, h.crit, draw)
    IN IF h.hit
       THEN [attacker |-> attacker,
             defender |-> take_damage(defender, damage),
             result |-> [NewResult EXCEPT !.success = TRUE,
                                          !.damage_dealt = damage,
                                          !.roll_info = [is_crit |-> h.crit],
                                          !.messages = <<"attacks">>]]
       ELSE [attacker |-> attacker,
             defender |-> defender,
             result |-> [NewResult EXCEPT !.messages = <<"attack missed">>]]

\* list.remove(item): the list without the first entry equal to item.
RemoveFirst(list, item) ==
    LET i == CHOOSE k \in 1..Len(list) :
                list[k] = item /\ \A j \in 1..(k - 1) : list[j] # item
    IN SubSeq(list, 1, i - 1) \o SubSeq(list, i + 1, Len(list))

\* _apply_item_effect(character, item): a consumable heals, a buff is noted
\* in the resolver's own status table.
apply_item_effect(c, item) ==
    IF item.type = "consumable"
    THEN [c EXCEPT !.current_health =
                character_heal(@, c.max_health, item.heal).health]
    ELSE c

\* _process_item_use(character, item). An Enemy has no inventory: the
\* attribute error is caught and reported.
process_item_use(c, defender, item) ==
    IF item = None
    THEN [attacker |-> c, defender |-> defender,
          result |-> [NewResult EXCEPT !.messages = <<"No item selected">>]]
    ELSE IF c.class # "Character"
    THEN [attacker |-> c, defender |-> defender,
          result |-> [NewResult EXCEPT !.messages = <<"Error using item">>]]
    ELSE IF \A k \in 1..Len(c.inventory) : c.inventory[k] # item
    THEN [attacker |-> c, defender |-> defender,
          result |-> [NewResult EXCEPT !.messages = <<"Item not in inventory">>]]
    ELSE [attacker |-> [apply_item_effect(c, item) EXCEPT
                            !.inventory = RemoveFirst(@, item)],
          defender |-> defender,
          result |-> [NewResult EXCEPT !.success = TRUE,
                                       !.item_used = item,
                                       !.messages = <<"used">>]]

\* flee_bonus of _process_flee_attempt
flee_bonus(c) == IF c.is_player THEN 2 ELSE 0

\* _process_flee_attempt with a strict comparison against flee_dc.
process_flee_attempt_strict(c, defender, flee_roll) ==
    IF flee_roll + flee_bonus(c) > 10
    THEN [attacker |-> c, defender |-> defender,
          result |-> [NewResult EXCEPT !.fled = TRUE, !.success = TRUE,
                                       !.messages = <<"successfully fled">>]]
    ELSE [attacker |-> c, defender |-> defender,
          result |-> [NewResult EXCEPT !.messages = <<"failed to flee">>]]

\* _process_flee_attempt(character) when roll_d20() returns flee_roll.
process_flee_attempt(c, defender, flee_roll) ==
    IF flee_roll + flee_bonus(c) >= 10
    THEN [attacker |-> c, defender |-> defender,
          result |-> [NewResult EXCEPT !.fled = TRUE, !.success = TRUE,
                                       !.messages = <<"successfully fled">>]]
    ELSE [attacker |-> c, defender |-> defender,
          result |-> [NewResult EXCEPT !.messages = <<"failed to flee">>]]

\* CombatAction(type, item)
CombatAction(type, item) == [type |-> type, item |-> item]

\* process_turn that treats an unknown action type as an attack.
process_turn_default_attack(attacker, defender, action, roll, draw) ==
    IF action.type = "use_item"
    THEN process_item_use(attacker, defender, action.item)
    ELSE IF action.type = "flee"
    THEN process_flee_attempt(attacker, defender, roll)
    ELSE process_attack(attacker, defender, roll, draw)

\* process_turn(attacker, defender, action): both objects afterwards and the
\* result returned, when the die shows roll and the weapon draw is draw / 2.
process_turn(attacker, defender, action, roll, draw) ==
    IF action.type = "attack"
    THEN process_attack(attacker, defender, roll, draw)
    ELSE IF action.type = "use_item"
    THEN process_item_use(attacker, defender, action.item)
    ELSE IF action.type = "flee"
    THEN process_flee_attempt(attacker, defender, roll)
    ELSE [attacker |-> attacker, defender |-> defender,
          result |-> [NewResult EXCEPT !.messages =
                        <<"An error occurred processing the turn">>]]

\* check_combat_status that looks at the enemy first.
check_combat_status_enemy_first(c, e) ==
    IF e.current_health <= 0 THEN [ended |-> TRUE, outcome |-> "victory"]
    ELSE IF c.current_health <= 0 THEN [ended |-> TRUE, outcome |-> "defeat"]
    ELSE [ended |-> FALSE, outcome |-> ""]

\* check_combat_status(character, enemy)
check_combat_status(c, e) ==
    IF c.current_health <= 0 THEN [ended |-> TRUE, outcome |-> "defeat"]
    ELSE IF e.current_health <= 0 THEN [ended |-> TRUE, outcome |-> "victory"]
    ELSE [ended |-> FALSE, outcome |-> ""]

\* Largest current_health of the character's snapshot an encounter starts
\* from.
MaxStartHealth == 3

\* The items an action may name, none included.
ItemArgs == {None, Potion, Tonic}

\* One call process_turn(attacker, defender, action) of the combat window,
\* by the character against the enemy or by the enemy against the character.
ProcessTurn(actor, action, roll, draw) ==
    LET attacker == IF actor = "character" THEN character ELSE enemy
        defender == IF actor = "character" THEN enemy ELSE character
        r == process_turn(attacker, defender, action, roll, draw)
    IN /\ character' = IF actor = "character" THEN r.attacker ELSE r.defender
       /\ enemy' = IF actor = "character" THEN r.defender ELSE r.attacker
       /\ result' = [op |-> "process_turn", actor |-> actor, action |-> action,
                     roll |-> roll, draw |-> draw,
                     attacker |-> attacker, defender |-> defender,
                     ret |-> r.result]
       /\ UNCHANGED <<dungeonVars, combatantVars, sessionVars>>

\* An encounter: a character rebuilt from a snapshot, bare or with a weapon
\* and two items, against an enemy of the catalogue; either may be at 0.
InitCombat ==
    /\ \E h \in {0, MaxStartHealth} :
       \E kit \in {<<<<>>, None>>, <<<<Potion, Tonic>>, Sword>>} :
            character = Character(1, 0, h, kit[1], kit[2])
    /\ \E row \in EnemyCatalog : \E h \in {0, row.health} : enemy = Enemy(row, h)
    /\ result = NoResult
    /\ merchant = NoStock
    /\ window = NoWindow
    /\ dialog = "none"
    /\ kind = "character"
    /\ max_health = 1
    /\ health = 1
    /\ last_call = NoCall
    /\ pc = "none"
    /\ tier = 1
    /\ player_pos = StartCell
    /\ rooms = <<>>
    /\ stack = <<>>
    /\ visited = {}
    /\ game_state = "menu"

NextCombat ==
    \E actor \in {"character", "enemy"} :
        \/ \E roll \in Rolls :
           \E draw \in WeaponDraws(IF actor = "character" THEN character ELSE enemy) :
                ProcessTurn(actor, CombatAction("attack", None), roll, draw)
        \/ \E item \in ItemArgs :
                ProcessTurn(actor, CombatAction("use_item", item), 1, 0)
        \/ \E roll \in Rolls :
                ProcessTurn(actor, CombatAction("flee", None), roll, 0)
        \/ ProcessTurn(actor, CombatAction("defend", None), 1, 0)

SpecCombat == InitCombat /\ [][NextCombat]_vars

----------------------------------------------------------------------------
(* The rewards of a victory *)

\* The rows of items the catalogue knows by name.
ItemCatalog == {Potion, Tonic}

\* Database.get_item(name): the row, or None for a name it does not know.
get_item(name) ==
    IF \E i \in ItemCatalog : i.name = name
    THEN CHOOSE i \in ItemCatalog : i.name = name
    ELSE None

\* Character.add_item(item): a copy of the item at the end of the inventory.
add_item(c, item) == [c EXCEPT !.inventory = Append(@, item)]

\* The drops Enemy.get_drops() returns: the copper first, then the names of
\* the items drawn, in the order of the draws.
get_drops(copper, names) ==
    <<[type |-> "copper", copper |-> copper, name |-> ""]>>
    \o [k \in 1..Len(names) |-> [type |-> "item", copper |-> 0, name |-> names[k]]]

\* The copper get_drops can draw: random.randint(min_copper, max_copper),
\* or, with the bonus, up to three times as much.
CopperDraws(e) == (e.min_copper .. e.max_copper) \cup {3 * e.max_copper}

\* The names get_drops can draw: none, one the catalogue knows, or a name
\* of the enemy's drop list the catalogue does not know followed by one it
\* knows.
NameDraws ==
    {<<>>, <<"Lesser Health Potion">>, <<"Lost Relic", "Lesser Health Potion">>}

\* All drops of enemy e.
DropArgs(e) == {get_drops(c, n) : c \in CopperDraws(e), n \in NameDraws}

\* The loop of distribute_rewards over the drops: the character afterwards.
RECURSIVE GrantDrops(_, _)
GrantDrops(c, drops) ==
    IF drops = <<>> THEN c
    ELSE LET d == Head(drops)
             c1 == IF d.type = "copper"
                   THEN [c EXCEPT !.money = @ + d.copper]
                   ELSE IF get_item(d.name) # None
                   THEN add_item(c, get_item(d.name))
                   ELSE c
         IN GrantDrops(c1, Tail(drops))

\* The names of the drops the catalogue resolves: rewards['items'].
RECURSIVE ResolvedNames(_)
ResolvedNames(drops) ==
    IF drops = <<>> THEN <<>>
    ELSE IF Head(drops).type = "item" /\ get_item(Head(drops).name) # None
    THEN <<Head(drops).name>> \o ResolvedNames(Tail(drops))
    ELSE ResolvedNames(Tail(drops))

\* The copper of the drops: rewards['copper'].
RECURSIVE DroppedCopper(_)
DroppedCopper(drops) ==
    IF drops = <<>> THEN 0
    ELSE IF Head(drops).type = "copper" THEN Head(drops).copper
    ELSE DroppedCopper(Tail(drops))

\* distribute_rewards(character, enemy) when enemy.get_drops() returns
\* drops: the character afterwards and the rewards dictionary.
distribute_rewards(c, e, drops) ==
    [character |-> add_xp(GrantDrops(c, drops), e.xp_value),
     rewards |-> [xp |-> e.xp_value, items |-> ResolvedNames(drops),
                  copper |-> DroppedCopper(drops)]]

----------------------------------------------------------------------------
(* The encounter: the combat window drives the resolver *)

\* Character.remove_item(item): the inventory without its first entry of the
\* item's name, and whether there was one.
remove_item(c, item) ==
    IF \E k \in 1..Len(c.inventory) : c.inventory[k].name = item.name
    THEN LET i == CHOOSE k \in 1..Len(c.inventory) :
                    /\ c.inventory[k].name = item.name
                    /\ \A j \in 1..(k - 1) : c.inventory[j].name # item.name
         IN [character |-> [c EXCEPT !.inventory =
                                SubSeq(@, 1, i - 1) \o SubSeq(@, i + 1, Len(@))],
             ret |-> TRUE]
    ELSE [character |-> c, ret |-> FALSE]

\* Character.use_healing_potion(potion)
use_healing_potion(c, potion) ==
    IF potion.type # "consumable"
    THEN [character |-> c, ret |-> FALSE]
    ELSE LET healed == [c EXCEPT !.current_health =
                            character_heal(@, c.max_health, potion.heal).health]
         IN [character |-> remove_item(healed, potion).character, ret |-> TRUE]

\* usable_items of show_item_selection: the consumables of the inventory.
usable_items(c) ==
    {c.inventory[k] : k \in {j \in 1..Len(c.inventory) :
                                c.inventory[j].type = "consumable"}}

\* The record of the last handle_combat_end: its outcome, the character it
\* found, the enemy and the drops of its distribute_rewards call.
EndRecord(s, outcome, drops) ==
    [op |-> "handle_combat_end", outcome |-> outcome, before |-> s.character,
     enemy |-> s.enemy, drops |-> drops]

\* handle_combat_end(outcome) on the window, character and enemy of s.
handle_combat_end(s, outcome, drops) ==
    LET w == [s.window EXCEPT !.combat_ended = TRUE, !.buttons = FALSE,
                              !.close = @ \cup {outcome}]
    IN IF outcome = "victory"
       THEN [character |-> distribute_rewards(s.character, s.enemy, drops).character,
             enemy |-> s.enemy,
             window |-> [w EXCEPT !.rewarded = @ + 1],
             result |-> EndRecord(s, outcome, drops)]
       ELSE [character |-> s.character, enemy |-> s.enemy, window |-> w,
             result |-> EndRecord(s, outcome, drops)]

\* enable_buttons(): only while the combat has not ended.
enable_buttons(w) == IF w.combat_ended THEN w ELSE [w EXCEPT !.buttons = TRUE]

\* The tail of handle_attack and process_enemy_turn: check_combat_status,
\* then handle_combat_end or what the handler does when the combat goes on.
AfterTurn(c, e, w, goes_on, drops) ==
    LET st == check_combat_status(c, e) IN
    IF st.ended
    THEN handle_combat_end([character |-> c, enemy |-> e, window |-> w],
                           st.outcome, drops)
    ELSE [character |-> c, enemy |-> e, window |-> goes_on, result |-> result]

\* The handler leaves s behind.
Leave(s) ==
    /\ character' = s.character
    /\ enemy' = s.enemy
    /\ window' = s.window
    /\ result' = s.result
    /\ UNCHANGED <<dungeonVars, combatantVars, merchant, dialog>>

\* handle_attack(), the Attack button.
HandleAttack(roll, draw, drops) ==
    /\ window.open /\ window.buttons
    /\ LET r == process_turn(character, enemy, CombatAction("attack", None),
                             roll, draw)
           w == [window EXCEPT !.buttons = FALSE]
       IN Leave(AfterTurn(r.attacker, r.defender, w,
                          [w EXCEPT !.timers = @ \cup {"process_enemy_turn"}],
                          drops))

\* process_enemy_turn(), scheduled with after().
ProcessEnemyTurn(roll, drops) ==
    /\ window.open /\ "process_enemy_turn" \in window.timers
    /\ LET r == process_turn(enemy, character, CombatAction("attack", None),
                             roll, 0)
           w == [window EXCEPT !.timers = @ \ {"process_enemy_turn"}]
       IN Leave(AfterTurn(r.defender, r.attacker, w, enable_buttons(w), drops))

\* handle_flee(), the Flee button.
HandleFlee(roll) ==
    /\ window.open /\ window.buttons
    /\ LET r == process_turn(character, enemy, CombatAction("flee", None),
                             roll, 0)
           next == IF r.result.fled THEN "handle_combat_end"
                   ELSE "process_enemy_turn"
       IN Leave([character |-> r.attacker, enemy |-> r.defender,
                 window |-> [window EXCEPT !.buttons = FALSE,
                                           !.timers = @ \cup {next}],
                 result |-> result])

\* The callback handle_flee schedules: handle_combat_end('fled').
FleeTimer(drops) ==
    /\ window.open /\ "handle_combat_end" \in window.timers
    /\ Leave(handle_combat_end(
                [character |-> character, enemy |-> enemy,
                 window |-> [window EXCEPT !.timers = @ \ {"handle_combat_end"}]],
                "fled", drops))

\* use_selected_item(item, window), the Use button of the item window.
UseSelectedItem(item, drops) ==
    /\ window.open /\ window.buttons
    /\ item \in usable_items(character)
    /\ LET u == use_healing_potion(character, item)
           off == [window EXCEPT !.buttons = FALSE]
           w == IF u.ret
                THEN [off EXCEPT !.timers = @ \cup {"process_enemy_turn"}]
                ELSE enable_buttons(off)
       IN Leave(AfterTurn(u.character, enemy, w,
                          IF u.ret THEN w ELSE enable_buttons(w), drops))

\* The Close button: end_combat(outcome) with the outcome of the
\* handle_combat_end call that packed it.
CloseCombat == \E outcome \in window.close : HandleCombatEnd(outcome)

\* Position of a cell on the path the maze of the encounter follows: along
\* row 0 eastwards, back along row 1, and so on.
PathIndex(c) ==
    c[2] * Size + (IF c[2] % 2 = 0 THEN c[1] ELSE Size - 1 - c[1])

\* The experience up to which the player goes on entering rooms.
MaxEncounterXp == 2

\* The room of the encounter and the rooms the player walks between.
EnemyCell == <<1, 0>>
EncounterCells == {StartCell, EnemyCell}

\* A generated dungeon: carve_path has followed one path through all rooms,
\* one enemy was spawned next to the start, the treasure and the merchant
\* were placed in the last row, the end room is the corner opposite the
\* start.
EncounterDungeon ==
    LET carved == [c \in Cells |->
                     [NewRoom EXCEPT
                        !.doors = [d \in Directions |->
                                     /\ InBounds(Step(c, d))
                                     /\ Abs(PathIndex(Step(c, d)) - PathIndex(c)) = 1],
                        !.enemies = IF c = EnemyCell THEN <<"enemy">> ELSE <<>>,
                        !.has_treasure = (c = <<0, Size - 1>>),
                        !.has_merchant = (c = <<1, Size - 1>>)]]
    IN update_visibility(
            [place_end_room(carved, StartCell) EXCEPT ![StartCell].is_visible = TRUE],
            StartCell)

\* A new game in that dungeon; the character has come down to MaxStartHealth
\* and two potions.
InitEncounter ==
    /\ character = Character(1, 0, MaxStartHealth, <<Potion, Potion>>, None)
    /\ \E row \in EnemyCatalog : enemy = Enemy(row, row.health)
    /\ result = NoResult
    /\ merchant = NoStock
    /\ window = NoWindow
    /\ dialog = "none"
    /\ kind = "character"
    /\ max_health = 1
    /\ health = 1
    /\ last_call = NoCall
    /\ pc = "ready"
    /\ tier = 1
    /\ player_pos = StartCell
    /\ rooms = EncounterDungeon
    /\ stack = <<>>
    /\ visited = {}
    /\ game_state = "playing"

\* The player walks between the start and the room of the enemy, and stops
\* walking with MaxEncounterXp experience points.
NextEncounter ==
    \/ \E d \in Directions :
            /\ Step(player_pos, d) \in EncounterCells
            /\ character.xp < MaxEncounterXp
            /\ HandleMovement(d)
    \/ \E roll \in Rolls : \E draw \in WeaponDraws(character) :
       \E drops \in DropArgs(enemy) : HandleAttack(roll, draw, drops)
    \/ \E roll \in Rolls : \E drops \in DropArgs(enemy) :
            ProcessEnemyTurn(roll, drops)
    \/ \E roll \in Rolls : HandleFlee(roll)
    \/ \E drops \in DropArgs(enemy) : FleeTimer(drops)
    \/ \E item \in usable_items(character) : \E drops \in DropArgs(enemy) :
            UseSelectedItem(item, drops)
    \/ CloseCombat

SpecEncounter == InitEncounter /\ [][NextEncounter]_vars

----------------------------------------------------------------------------
(* The merchant *)

\* An item of the catalogue with a base price of 100 copper.
Amulet == [name |-> "Amulet", type |-> "tool", heal |-> 0, price_copper |-> 100]

\* all_items of _generate_inventory: the rows the stock is drawn from.
all_items == ItemCatalog \cup {Amulet}

\* The values of random.uniform(1 - 0.2, 1 + 0.2) the model follows, in
\* percent: the two bounds and no variation.
Variations == {80, 100, 120}

\* _apply_price_variation(item) when the variation drawn is v percent.
apply_price_variation(item, v) ==
    [item EXCEPT !.price_copper = Max(1, (item.price_copper * v) \div 100)]

\* The items _generate_inventory can put in stock.
StockedItems == {apply_price_variation(i, v) : i \in all_items, v \in Variations}

\* Largest stock of the merchant.
MaxStock == 2

\* The stocks _generate_inventory can return, up to MaxStock items.
Stocks == UNION {[1..n -> StockedItems] : n \in 0..MaxStock}

\* can_afford that only refuses a negative price.
can_afford_any_price(c, price) == price >= 0

\* Character.can_afford(price): a negative price raises, which reads False.
can_afford(c, price) == price >= 0 /\ c.money >= price

\* The first entry of a list with the name, 0 if there is none:
\* next((i for i in self._inventory if i['name'] == item_name), None)
FirstNamed(list, name) ==
    IF \E k \in 1..Len(list) : list[k].name = name
    THEN CHOOSE k \in 1..Len(list) :
            /\ list[k].name = name
            /\ \A j \in 1..(k - 1) : list[j].name # name
    ELSE 0

\* buy_item that does not ask whether the player can afford the item.
buy_item_on_credit(stock, c, item_name) ==
    LET i == FirstNamed(stock, item_name) IN
    IF i = 0
    THEN [ret |-> FALSE, character |-> c, stock |-> stock]
    ELSE [ret |-> TRUE,
          character |-> add_item([c EXCEPT !.money = @ - stock[i].price_copper],
                                 stock[i]),
          stock |-> RemoveFirst(stock, stock[i])]

\* Merchant.buy_item(player, item_name): what it returns, the player and
\* the stock afterwards.
buy_item(stock, c, item_name) ==
    LET i == FirstNamed(stock, item_name) IN
    IF i = 0
    THEN [ret |-> FALSE, character |-> c, stock |-> stock]
    ELSE IF ~can_afford(c, stock[i].price_copper)
    THEN [ret |-> FALSE, character |-> c, stock |-> stock]
    ELSE [ret |-> TRUE,
          character |-> add_item([c EXCEPT !.money = @ - stock[i].price_copper],
                                 stock[i]),
          stock |-> RemoveFirst(stock, stock[i])]

\* get_item_value with the ratio applied the wrong way round.
get_item_value_doubled(item) == Max(1, item.price_copper * 2)

\* Merchant.get_item_value(item): max(1, int(price_copper * 0.5))
get_item_value(item) == Max(1, item.price_copper \div 2)

\* Merchant.sell_item(player, item)
sell_item(stock, c, item) ==
    IF \A k \in 1..Len(c.inventory) : c.inventory[k] # item
    THEN [ret |-> FALSE, character |-> c, stock |-> stock]
    ELSE [ret |-> TRUE,
          character |-> remove_item([c EXCEPT !.money = @ + get_item_value(item)],
                                    item).character,
          stock |-> stock]

\* The names a purchase may ask for: those of the catalogue and one more.
NameArgs == {i.name : i \in all_items} \cup {"Lost Relic"}

\* The items a sale may offer: those of the player's inventory, and those
\* of the stock, which the player may not have.
SellArgs(stock, c) ==
    {c.inventory[k] : k \in 1..Len(c.inventory)} \cup {stock[k] : k \in 1..Len(stock)}

\* The item a successful purchase, recorded in r, has put in the inventory.
Bought(r) == r.stock[FirstNamed(r.stock, r.name)]

\* One call merchant.buy_item(player, item_name) of the merchant window.
BuyItem(item_name) ==
    LET r == buy_item(merchant, character, item_name) IN
    /\ character' = r.character
    /\ merchant' = r.stock
    /\ result' = [op |-> "buy_item", name |-> item_name, before |-> character,
                  stock |-> merchant, ret |-> r.ret]
    /\ UNCHANGED <<enemy, window, dialog, dungeonVars, combatantVars>>

\* One call merchant.sell_item(player, item). purchase is the record of the
\* call before it when that call bought this very item, NoResult otherwise.
SellItem(item) ==
    LET r == sell_item(merchant, character, item) IN
    /\ character' = r.character
    /\ merchant' = r.stock
    /\ result' = [op |-> "sell_item", item |-> item, before |-> character,
                  stock |-> merchant, ret |-> r.ret,
                  purchase |-> IF result.op = "buy_item" /\ result.ret
                                  /\ Bought(result) = item
                               THEN result ELSE NoResult]
    /\ UNCHANGED <<enemy, window, dialog, dungeonVars, combatantVars>>

\* The money the player comes to the merchant with: none, that of a new
\* character, and more.
StartMoney == {0, 100, 150}

\* The player, with one potion of the catalogue, at a merchant who has just
\* generated the stock.
InitMerchant ==
    /\ merchant \in Stocks
    /\ \E m \in StartMoney :
            character = [Character(1, 0, get_tier_data(1).health, <<Potion>>, None)
                            EXCEPT !.money = m]
    /\ enemy = NewEnemy
    /\ result = NoResult
    /\ window = NoWindow
    /\ dialog = "merchant"
    /\ kind = "character"
    /\ max_health = 1
    /\ health = 1
    /\ last_call = NoCall
    /\ pc = "none"
    /\ tier = 1
    /\ player_pos = StartCell
    /\ rooms = <<>>
    /\ stack = <<>>
    /\ visited = {}
    /\ game_state = "shopping"

NextMerchant ==
    \/ \E item_name \in NameArgs : BuyItem(item_name)
    \/ \E item \in SellArgs(merchant, character) : SellItem(item)

SpecMerchant == InitMerchant /\ [][NextMerchant]_vars

----------------------------------------------------------------------------
(* The player's money: the merchant, the rewards, the treasure, the bonus *)

\* The copper of get_treasure_loot(): 100 * tier plus random.randint(0, that).
TreasureCopper(t) == {100 * t, 200 * t}

\* The names of get_treasure_loot(): a sample of at least two rows of the
\* items of the tier, here both rows of the catalogue in either order.
TreasureNames ==
    {<<Potion.name, Tonic.name>>, <<Tonic.name, Potion.name>>}

\* The loop of _handle_treasure over the loot.
RECURSIVE GrantLoot(_, _)
GrantLoot(c, names) ==
    IF names = <<>> THEN c
    ELSE GrantLoot(IF get_item(Head(names)) # None
                   THEN add_item(c, get_item(Head(names)))
                   ELSE c,
                   Tail(names))

\* _handle_treasure(room) on the player: the copper, then the items.
handle_treasure(c, copper, names) ==
    GrantLoot([c EXCEPT !.money = @ + copper], names)

\* The bonus of _handle_dungeon_completion for a dungeon of tier t:
\* 100 XP and 50 copper per tier.
handle_dungeon_completion(c, t) ==
    [add_xp(c, t * 100) EXCEPT !.money = @ + t * 50]

\* The player stops collecting with more than MaxMoney copper or with
\* MaxInventory items, and stops fighting with MaxEncounterXp experience.
MaxMoney == 150
MaxInventory == 2
Collecting == character.money <= MaxMoney /\ Len(character.inventory) < MaxInventory

\* A victory: handle_combat_end('victory') hands out the rewards of an enemy
\* of the catalogue.
DistributeRewards(e, drops) ==
    /\ Collecting
    /\ character.xp < MaxEncounterXp
    /\ character' = distribute_rewards(character, e, drops).character
    /\ result' = [op |-> "distribute_rewards"]
    /\ UNCHANGED <<enemy, sessionVars, dungeonVars, combatantVars>>

\* _handle_treasure(room); the rooms of the dungeon are not followed here.
HandleTreasure(copper, names) ==
    /\ Collecting
    /\ character' = handle_treasure(character, copper, names)
    /\ result' = [op |-> "handle_treasure"]
    /\ UNCHANGED <<enemy, sessionVars, dungeonVars, combatantVars>>

\* _handle_dungeon_completion(): the bonus, and a new dungeon of the next
\* tier, whose rooms are not followed here.
HandleDungeonCompletion ==
    /\ Collecting
    /\ tier < MaxTier
    /\ character' = handle_dungeon_completion(character, tier)
    /\ tier' = NextTier(tier)
    /\ result' = [op |-> "handle_dungeon_completion"]
    /\ UNCHANGED <<pc, player_pos, rooms, stack, visited, game_state>>
    /\ UNCHANGED <<enemy, sessionVars, combatantVars>>

\* A new character, or one who has spent everything, in a dungeon of tier 1
\* whose merchant stocks up to one item.
InitEconomy ==
    /\ \E n \in 0..1 : merchant \in [1..n -> StockedItems]
    /\ \E m \in {0, 100} :
            character = [Character(1, 0, get_tier_data(1).health, <<Potion>>, None)
                            EXCEPT !.money = m]
    /\ enemy = NewEnemy
    /\ result = NoResult
    /\ window = NoWindow
    /\ dialog = "none"
    /\ kind = "character"
    /\ max_health = 1
    /\ health = 1
    /\ last_call = NoCall
    /\ pc = "none"
    /\ tier = 1
    /\ player_pos = StartCell
    /\ rooms = <<>>
    /\ stack = <<>>
    /\ visited = {}
    /\ game_state = "playing"

NextEconomy ==
    \/ \E item_name \in NameArgs : BuyItem(item_name)
    \/ \E item \in SellArgs(merchant, character) : SellItem(item)
    \/ \E row \in EnemyCatalog : \E drops \in DropArgs(Enemy(row, 0)) :
            DistributeRewards(Enemy(row, 0), drops)
    \/ \E copper \in TreasureCopper(tier) : \E names \in TreasureNames :
            HandleTreasure(copper, names)
    \/ HandleDungeonCompletion

SpecEconomy == InitEconomy /\ [][NextEconomy]_vars

----------------------------------------------------------------------------
(* Saving and loading: to_dict, the constructors called on a snapshot,
   _load_save_file *)

\* An exception raised by a constructor.
Raised == [class |-> "Exception"]

\* Character.to_dict()
character_to_dict(c) ==
    [tier |-> c.tier, xp |-> c.xp, current_health |-> c.current_health,
     inventory |-> c.inventory, equipped_weapon |-> c.equipped_weapon,
     money |-> c.money]

\* _initialize_starting_equipment(): five Lesser Health Potions if the
\* catalogue has them, 100 copper; the tier rows of the model name no weapon
\* and no armor, so the slots stay empty.
initialize_starting_equipment(c) ==
    LET potion == get_item("Lesser Health Potion")
        potions == IF potion # None THEN [k \in 1..5 |-> potion] ELSE <<>>
    IN [c EXCEPT !.inventory = @ \o potions, !.money = 100]

\* Character(**d): the fields of the snapshot, then __post_init__, which
\* loads the stats of the tier (raising for a tier without a row) and hands
\* out the starting equipment to a character with no item and no weapon.
CharacterFromDict(d) ==
    IF get_tier_data(d.tier) = None
    THEN Raised
    ELSE LET c == [Character(d.tier, d.xp, d.current_health, d.inventory,
                             d.equipped_weapon) EXCEPT !.money = d.money]
         IN IF d.inventory = <<>> /\ d.equipped_weapon = None
            THEN initialize_starting_equipment(c)
            ELSE c

\* Enemy.to_dict()
enemy_to_dict(e) ==
    [name |-> e.name, current_health |-> e.current_health,
     attack |-> e.attack, defense |-> e.defense, health |-> e.health,
     xp_value |-> e.xp_value,
     min_copper |-> e.min_copper, max_copper |-> e.max_copper]

\* Enemy(**d): __post_init__ loads the stats of the enemies row of that name
\* over the saved ones and raises when there is no such row; the saved
\* current_health is kept.
EnemyFromDict(d) ==
    IF \E row \in EnemyCatalog : row.name = d.name
    THEN Enemy(CHOOSE row \in EnemyCatalog : row.name = d.name, d.current_health)
    ELSE Raised

\* A room with the Enemy objects its enemies list refers to.
WithEnemies(room, e) ==
    [room EXCEPT !.enemies = [k \in 1..Len(@) |-> e]]

\* Room.to_dict()
room_to_dict(room) ==
    [room EXCEPT !.enemies = [k \in 1..Len(@) |-> enemy_to_dict(@[k])]]

\* The enemies loop of _load_rooms: a record Enemy(**enemy_data) raises on
\* is logged and left out.
RECURSIVE LoadEnemies(_)
LoadEnemies(ds) ==
    IF ds = <<>>
    THEN <<>>
    ELSE LET e == EnemyFromDict(Head(ds))
         IN (IF e = Raised THEN <<>> ELSE <<e>>) \o LoadEnemies(Tail(ds))

\* _load_rooms builds one Room of a saved room.
load_room(d) ==
    [d EXCEPT !.enemies = LoadEnemies(@)]

\* Dungeon.to_dict()
dungeon_to_dict(t, pos, rs, e) ==
    [tier |-> t, size |-> Size, player_pos |-> pos,
     rooms |-> [c \in Cells |-> room_to_dict(WithEnemies(rs[c], e))]]

\* Dungeon(**d) for a snapshot with rooms: tier and size are tested, a
\* player_pos that is a pair is clamped and any other becomes (0, 0), the
\* rooms are loaded. The snapshots of the model have the grid of the model
\* or a size below MIN_DUNGEON_SIZE.
DungeonFromDict(d) ==
    IF d.tier < 1 \/ d.size < MIN_DUNGEON_SIZE
    THEN Raised
    ELSE [class |-> "Dungeon", tier |-> d.tier, size |-> d.size,
          player_pos |-> IF Len(d.player_pos) = 2
                         THEN ClampPos(d.player_pos)
                         ELSE StartCell,
          rooms |-> [c \in Cells |-> load_room(d.rooms[c])]]

\* to_dict() of a Dungeon object built by DungeonFromDict.
loaded_to_dict(dg) ==
    [tier |-> dg.tier, size |-> dg.size, player_pos |-> dg.player_pos,
     rooms |-> [c \in Cells |-> room_to_dict(dg.rooms[c])]]

\* The keys _validate_save_data requires.
required_keys == {"player", "dungeon"}
player_keys ==
    {"name", "age", "tier", "xp", "current_health", "inventory",
     "equipped_weapon", "equipped_armor", "equipped_shield", "money"}
dungeon_keys == {"tier", "size", "player_pos", "rooms"}

\* _validate_save_data(save_data): the keys are there, name is a str, age
\* an int and rooms a list; no other value is looked at.
validate_save_data(save) ==
    /\ required_keys \subseteq save.keys
    /\ player_keys \subseteq save.player_keys
    /\ dungeon_keys \subseteq save.dungeon_keys
    /\ save.name_type = "str"
    /\ save.age_type = "int"
    /\ save.rooms_type = "list"

\* _save_game(): the file written for the live game.
save_game(c, t, pos, rs, e) ==
    [readable |-> TRUE, keys |-> required_keys,
     player_keys |-> player_keys, dungeon_keys |-> dungeon_keys,
     name_type |-> "str", age_type |-> "int", rooms_type |-> "list",
     player |-> character_to_dict(c),
     dungeon |-> dungeon_to_dict(t, pos, rs, e)]

\* What _load_save_file has built and assigned when it returns: the file is
\* read and validated, then self._player is assigned, then
\* self._current_dungeon, then _start_game runs; an exception at any of
\* these steps ends the handler there.
load_save_file(save) ==
    LET valid == save.readable /\ validate_save_data(save)
        player == IF valid THEN CharacterFromDict(save.player) ELSE Raised
        dungeon == IF player # Raised THEN DungeonFromDict(save.dungeon)
                   ELSE Raised
    IN [player |-> player, dungeon |-> dungeon]

\* The save of another game: a tier 2 character with 7 copper standing in
\* the room of a wounded golem.
OtherSave ==
    LET golem == CHOOSE row \in EnemyCatalog : row.name = "Golem"
        c == [Character(2, 2, 7, <<Tonic>>, None) EXCEPT !.money = 7]
    IN save_game(c, 2, EnemyCell, EncounterDungeon, Enemy(golem, 1))

\* OtherSave with the record of its enemy renamed.
RenamedEnemy(name) ==
    [OtherSave EXCEPT !.dungeon.rooms[EnemyCell].enemies =
        [k \in 1..Len(@) |-> [@[k] EXCEPT !.name = name]]]

\* The files _load_save_file is called on: the two saves, and OtherSave
\* unreadable, without a key, with a value of another type, with a value no
\* constructor accepts.
SaveArgs(live) ==
    {live, OtherSave,
     [OtherSave EXCEPT !.readable = FALSE],
     [OtherSave EXCEPT !.keys = @ \ {"dungeon"}],
     [OtherSave EXCEPT !.player_keys = @ \ {"money"}],
     [OtherSave EXCEPT !.dungeon_keys = @ \ {"player_pos"}],
     [OtherSave EXCEPT !.age_type = "str"],
     [OtherSave EXCEPT !.rooms_type = "dict"],
     [OtherSave EXCEPT !.dungeon.player_pos = <<1>>],
     RenamedEnemy("Ghost"),
     [OtherSave EXCEPT !.player.tier = 0],
     [OtherSave EXCEPT !.dungeon.tier = 0],
     [OtherSave EXCEPT !.dungeon.size = MIN_DUNGEON_SIZE - 1]}

\* The live game _load_save_file can replace.
LiveGame ==
    [character |-> character, enemy |-> enemy, tier |-> tier,
     player_pos |-> player_pos, rooms |-> rooms, game_state |-> game_state]

\* The rooms of a loaded dungeon, their enemies lists referring to the
\* Enemy object of the model.
Referring(rs) ==
    [c \in Cells |-> [rs[c] EXCEPT !.enemies = [k \in 1..Len(@) |-> "enemy"]]]

\* The Enemy object of a loaded dungeon, e when it has none.
LoadedEnemy(rs, e) ==
    IF \E c \in Cells : rs[c].enemies # <<>>
    THEN rs[CHOOSE c \in Cells : rs[c].enemies # <<>>].enemies[1]
    ELSE e

\* The live game _load_save_file leaves behind: the player is replaced as
\* soon as Character(**save_data['player']) has returned, the dungeon and
\* the game state once Dungeon(**save_data['dungeon']) has.
AfterLoad(live, built) ==
    IF built.dungeon # Raised
    THEN [character |-> built.player,
          enemy |-> LoadedEnemy(built.dungeon.rooms, live.enemy),
          tier |-> built.dungeon.tier,
          player_pos |-> built.dungeon.player_pos,
          rooms |-> Referring(built.dungeon.rooms),
          game_state |-> "playing"]
    ELSE IF built.player # Raised
    THEN [live EXCEPT !.character = built.player]
    ELSE live

\* _load_save_file(filename)
LoadSaveFile(save) ==
    /\ pc = "ready"
    /\ dialog = "none"
    /\ game_state # "combat"
    /\ LET built == load_save_file(save)
           after == AfterLoad(LiveGame, built)
       IN /\ character' = after.character
          /\ enemy' = after.enemy
          /\ tier' = after.tier
          /\ player_pos' = after.player_pos
          /\ rooms' = after.rooms
          /\ game_state' = after.game_state
          /\ result' = [op |-> "load_save_file", save |-> save,
                        before |-> LiveGame, built |-> built, after |-> after]
    /\ UNCHANGED <<pc, stack, visited, kind, max_health, health, last_call>>
    /\ UNCHANGED sessionVars

\* The entities that are saved.
Entities == {"Character", "Enemy", "Room", "Dungeon"}

\* The snapshot of an entity of the live game.
to_dict(entity) ==
    CASE entity = "Character" -> character_to_dict(character)
      [] entity = "Enemy"     -> enemy_to_dict(enemy)
      [] entity = "Room"      -> room_to_dict(WithEnemies(rooms[player_pos], enemy))
      [] entity = "Dungeon"   -> dungeon_to_dict(tier, player_pos, rooms, enemy)

\* The snapshot of the object its constructor builds from a snapshot.
to_dict_again(entity, d) ==
    CASE entity = "Character" -> character_to_dict(CharacterFromDict(d))
      [] entity = "Enemy"     -> enemy_to_dict(EnemyFromDict(d))
      [] entity = "Room"      -> room_to_dict(load_room(d))
      [] entity = "Dungeon"   -> loaded_to_dict(DungeonFromDict(d))

\* to_dict(), the constructor on the snapshot, to_dict() of what it built.
RoundTrip(entity) ==
    /\ pc = "ready"
    /\ result' = [op |-> "round_trip", entity |-> entity,
                  first |-> to_dict(entity),
                  second |-> to_dict_again(entity, to_dict(entity))]
    /\ UNCHANGED <<character, enemy, kind, max_health, health, last_call>>
    /\ UNCHANGED <<dungeonVars, sessionVars>>

\* _use_item(player, item, window) of the inventory window.
UseItem(item) ==
    /\ pc = "ready"
    /\ game_state = "playing"
    /\ character' = IF item.type = "consumable"
                    THEN use_healing_potion(character, item).character
                    ELSE character
    /\ UNCHANGED <<enemy, result, kind, max_health, health, last_call>>
    /\ UNCHANGED <<dungeonVars, sessionVars>>

\* A game in the dungeon of the encounter, its enemy wounded or not, the
\* character down to one potion.
InitSave ==
    /\ character = Character(1, 0, MaxStartHealth, <<Potion>>, None)
    /\ \E row \in EnemyCatalog : \E h \in 1..row.health : enemy = Enemy(row, h)
    /\ result = NoResult
    /\ merchant = <<Potion>>
    /\ window = NoWindow
    /\ dialog = "none"
    /\ kind = "character"
    /\ max_health = 1
    /\ health = 1
    /\ last_call = NoCall
    /\ pc = "ready"
    /\ tier = 1
    /\ player_pos = StartCell
    /\ rooms = EncounterDungeon
    /\ stack = <<>>
    /\ visited = {}
    /\ game_state = "playing"

\* The game is played up to its first snapshot; from then on snapshots are
\* taken and saves are loaded.
NextSave ==
    \/ \E d \in Directions :
            /\ result = NoResult
            /\ Step(player_pos, d) \in EncounterCells
            /\ HandleMovement(d)
    \/ \E outcome \in {"victory", "fled", "defeat"} :
            /\ result = NoResult
            /\ HandleCombatEnd(outcome)
    \/ \E k \in 1..Len(character.inventory) :
            /\ result = NoResult
            /\ UseItem(character.inventory[k])
    \/ \E entity \in Entities : RoundTrip(entity)
    \/ \E save \in SaveArgs(save_game(character, tier, player_pos, rooms, enemy)) :
            LoadSaveFile(save)

SpecSave == InitSave /\ [][NextSave]_vars

----------------------------------------------------------------------------
(* The draws of Enemy.get_drops, one at a time *)

\* A value of random.random(), as far as the comparisons of get_drops tell
\* values apart: hundredths / 100 + units * 2^-55.  random.random() returns
\* the multiples of 2^-53 in [0, 1): 0.0, 2^-53 (4 units) and, for the
\* larger ones, the middle of every tenth.
RandomDraws ==
    {[hundredths |-> 0, units |-> u] : u \in {0, 4}}
    \cup {[hundredths |-> 10 * k + 5, units |-> 0] : k \in 0..9}

\* The double 0.1 * tier - 0.1 - ... - 0.1 (tier subtractions) in units of
\* 2^-55, as IEEE 754 arithmetic gives it: 0.1 * 3 is 0.30000000000000004
\* and leaves 2.7755575615628914e-17, 0.1 * 6 is 0.6000000000000001 and
\* leaves 1.3877787807814457e-16.
ZeroResidue(t) ==
    CASE t \in {3, 4, 5} -> 1
      [] t = 6 -> 5
      [] OTHER -> 0

\* extra_drop_chance = 0.1 * self.tier: tenths / 10 + units * 2^-55, the
\* units kept for the value next to zero only.
extra_drop_chance(t) ==
    [tenths |-> t, units |-> IF t = 0 THEN ZeroResidue(t) ELSE 0]

\* extra_drop_chance -= 0.1
LowerChance(chance, t) ==
    IF chance.tenths > 1 THEN [tenths |-> chance.tenths - 1, units |-> 0]
    ELSE IF chance.tenths = 1 THEN [tenths |-> 0, units |-> ZeroResidue(t)]
    ELSE [tenths |-> -1, units |-> 0]

\* extra_drop_chance > 0
ChanceLeft(chance) == chance.tenths > 0 \/ (chance.tenths = 0 /\ chance.units > 0)

\* random.random() < extra_drop_chance
RollBelow(roll, chance) ==
    IF roll.hundredths = 0 /\ chance.tenths = 0
    THEN roll.units < chance.units
    ELSE roll.hundredths < 10 * chance.tenths

\* get_drops up to the bonus loop: the copper and the names of the
\* legendary, rare and common draws.
DrawDrops(copper, names) ==
    /\ result = NoResult
    /\ result' = [op |-> "get_drops", stage |-> "extra", copper |-> copper,
                  names |-> names, chance |-> extra_drop_chance(tier),
                  extra |-> 0]
    /\ UNCHANGED <<character, enemy, sessionVars, dungeonVars, combatantVars>>

\* One test of the while condition of the bonus loop, with its body when the
\* test succeeds; get_drops returns when it fails.
ExtraDrop(roll) ==
    /\ result.op = "get_drops"
    /\ result.stage = "extra"
    /\ result' = IF RollBelow(roll, result.chance) /\ ChanceLeft(result.chance)
                 THEN [result EXCEPT !.names = Append(@, Potion.name),
                                     !.chance = LowerChance(@, tier),
                                     !.extra = @ + 1]
                 ELSE [result EXCEPT !.stage = "done"]
    /\ UNCHANGED <<character, enemy, sessionVars, dungeonVars, combatantVars>>

\* The drops are handed out and the next enemy of the tier is beaten.
GrantDrawnDrops ==
    /\ result.op = "get_drops"
    /\ result.stage = "done"
    /\ character.xp < MaxEncounterXp
    /\ character' = distribute_rewards(character, enemy,
                                       get_drops(result.copper, result.names)).character
    /\ result' = NoResult
    /\ UNCHANGED <<enemy, sessionVars, dungeonVars, combatantVars>>

InitDrops ==
    /\ character = Character(1, 0, MaxStartHealth, <<>>, None)
    /\ \E row \in EnemyCatalog : enemy = Enemy(row, row.health)
    /\ result = NoResult
    /\ merchant = <<Potion>>
    /\ window = NoWindow
    /\ dialog = "none"
    /\ kind = "enemy"
    /\ max_health = 1
    /\ health = 1
    /\ last_call = NoCall
    /\ pc = "ready"
    /\ tier \in 1..MAX_TIER
    /\ player_pos = StartCell
    /\ rooms = EncounterDungeon
    /\ stack = <<>>
    /\ visited = {}
    /\ game_state = "combat"

NextDrops ==
    \/ \E copper \in CopperDraws(enemy), names \in NameDraws : DrawDrops(copper, names)
    \/ \E roll \in RandomDraws : ExtraDrop(roll)
    \/ GrantDrawnDrops

SpecDrops == InitDrops /\ [][NextDrops]_vars

\* The loop is not left waiting: a call of get_drops runs on.
SpecDropsFair == SpecDrops /\ WF_vars(\E roll \in RandomDraws : ExtraDrop(roll))

----------------------------------------------------------------------------
(* The game as it is played: the rooms, their events, the windows *)

\* _handle_movement(direction) with the player: _handle_treasure hands the
\* loot drawn by get_treasure_loot to the character, and
\* _handle_dungeon_completion the bonus of the completed dungeon.
Movement(d, copper, names) ==
    /\ MoveAndTrigger(d)
    /\ LET m == move_player(rooms, player_pos, d)
           looted == IF m.ret /\ RoomEvent(m.rooms[m.pos]) = "treasure"
                     THEN handle_treasure(character, copper, names)
                     ELSE character
       IN character' = IF m.ret /\ is_complete(AfterEvent(m.rooms, m.pos), m.pos)
                       THEN handle_dungeon_completion(looted, tier)
                       ELSE looted
    /\ UNCHANGED <<enemy, result, combatantVars, merchant>>

\* The room east of the room of the encounter, on the path of the maze.
SecondCell == <<2, 0>>
PlayCells == {StartCell, EnemyCell, SecondCell}

\* The dungeons of a loaded game: the dungeon of the encounter with a second
\* enemy in SecondCell, and in the room next to the start whatever a save
\* can hold there, an enemy or none, a treasure or none, the merchant or not,
\* cleared, looted and visited or not.
PlayDungeons ==
    {[EncounterDungeon EXCEPT
        ![SecondCell].enemies = <<"enemy">>,
        ![EnemyCell].enemies = IF e THEN <<"enemy">> ELSE <<>>,
        ![EnemyCell].is_cleared = f[1],
        ![EnemyCell].has_treasure = f[2],
        ![EnemyCell].treasure_looted = f[3],
        ![EnemyCell].has_merchant = f[4],
        ![EnemyCell].merchant_visited = f[5]] :
     e \in BOOLEAN, f \in [1..5 -> BOOLEAN]}

\* A loaded game: the player at the start of one of these dungeons.
InitPlay ==
    /\ character = Character(1, 0, get_tier_data(1).health, <<>>, None)
    /\ enemy = NewEnemy
    /\ result = NoResult
    /\ merchant = <<Potion>>
    /\ window = NoWindow
    /\ dialog = "none"
    /\ kind = "character"
    /\ max_health = 1
    /\ health = 1
    /\ last_call = NoCall
    /\ pc = "ready"
    /\ tier = 1
    /\ player_pos = StartCell
    /\ rooms \in PlayDungeons
    /\ stack = <<>>
    /\ visited = {}
    /\ game_state = "playing"

\* The player walks between the three rooms.
NextPlay ==
    \/ \E d \in Directions :
       \E copper \in TreasureCopper(tier) : \E names \in TreasureNames :
            /\ Step(player_pos, d) \in PlayCells
            /\ Movement(d, copper, names)
    \/ \E outcome \in {"victory", "fled", "defeat"} : HandleCombatEnd(outcome)
    \/ HandleInventory
    \/ CloseInventoryWindow
    \/ CloseMerchantWindow

SpecPlay == InitPlay /\ [][NextPlay]_vars

----------------------------------------------------------------------------
(* Properties of the dungeon *)

\* The dungeon object is built (generated, or rebuilt from its save).
Built == pc = "ready"

\* The rooms one door away from a room of S.
DoorNeighbours(rs, S) ==
    UNION {{Step(c, d) : d \in {e \in Directions :
                                    rs[c].doors[e] /\ InBounds(Step(c, e))}} :
           c \in S}

\* The rooms reachable through open doors from the rooms of seen, of which
\* those of frontier have not been expanded yet.
RECURSIVE Reach(_, _, _)
Reach(rs, seen, frontier) ==
    IF frontier = {}
    THEN seen
    ELSE LET new == DoorNeighbours(rs, frontier) \ seen
         IN Reach(rs, seen \cup new, new)

ReachableFrom(rs, S) == Reach(rs, S, S)

\* The pairs of adjacent rooms with an open door between them.
OpenDoorPairs(rs) ==
    {{c, Step(c, d)} : <<c, d>> \in
        {x \in Cells \X Directions :
            InBounds(Step(x[1], x[2])) /\
            (rs[x[1]].doors[x[2]] \/ rs[Step(x[1], x[2])].doors[Opposite(x[2])])}}

\* C1: in every generated dungeon the open doors form a spanning tree of the
\* grid: every room is reachable from (0,0) through open doors, and there are
\* exactly size*size - 1 open door pairs.
C1_SpanningTree ==
    Built =>
        /\ ReachableFrom(rooms, {StartCell}) = Cells
        /\ Cardinality(OpenDoorPairs(rooms)) = Size * Size - 1

\* A generated maze that is not the one the listed direction order carves: it
\* has a room with three open doors.
C1_Witness ==
    /\ Built
    /\ \E c \in Cells : Cardinality({d \in Directions : rooms[c].doors[d]}) >= 3

\* C2: door symmetry in every reachable state: for every room A and every
\* in-bounds neighbour B of A in direction D, A.doors[D] = B.doors[opposite(D)].
C2_DoorSymmetry ==
    \A c \in Cells : \A d \in Directions :
        InBounds(Step(c, d)) =>
            rooms[c].doors[d] = rooms[Step(c, d)].doors[Opposite(d)]

\* The player has moved, a fight was won and a treasure was looted.
C2_Witness ==
    /\ Built
    /\ player_pos # StartCell
    /\ \E c \in Cells : rooms[c].is_cleared
    /\ \E c \in Cells : rooms[c].treasure_looted
    /\ \E c \in Cells : rooms[c].merchant_visited

\* C3: player_pos is within [0, size) on both axes in every reachable state.
C3_PlayerInBounds ==
    /\ player_pos[1] \in 0..(Size - 1)
    /\ player_pos[2] \in 0..(Size - 1)

\* The dungeon was rebuilt from a save with an out-of-range player_pos: the
\* player stands at the clamped cell, which no move has revealed the
\* surroundings of.
C3_Witness ==
    /\ Built
    /\ player_pos = ClampPos(<<Size, 2>>)
    /\ \E c \in Cells :
        /\ InView(c[1] - player_pos[1], c[2] - player_pos[2])
        /\ ~rooms[c].is_visible

\* C4: move_player(direction) returns true iff the current room's door for
\* the direction is open and the destination is in bounds; then the player is
\* exactly one cell further in that direction; when it returns false,
\* player_pos and every room are unchanged.
C4_MovePlayer ==
    Built =>
        \A d \in DirectionArgs :
            LET m == move_player(rooms, player_pos, d)
                x == player_pos[1]
                y == player_pos[2]
                target == CASE d = "north" -> <<x, y - 1>>
                            [] d = "south" -> <<x, y + 1>>
                            [] d = "east"  -> <<x + 1, y>>
                            [] d = "west"  -> <<x - 1, y>>
                            [] OTHER       -> <<x, y>>
            IN /\ m.ret <=> /\ d \in Directions
                            /\ rooms[player_pos].doors[d]
                            /\ target \in Cells
               /\ m.ret => m.pos = target /\ target # player_pos
               /\ ~m.ret => m.pos = player_pos /\ m.rooms = rooms

\* The player has moved and stands where one direction is open and another,
\* leading to a room of the grid, is closed.
C4_Witness ==
    /\ Built
    /\ game_state = "playing"
    /\ player_pos # StartCell
    /\ \E d \in Directions : move_player(rooms, player_pos, d).ret
    /\ \E d \in Directions :
        InBounds(Step(player_pos, d)) /\ ~move_player(rooms, player_pos, d).ret

\* Every room within the view radius of cell pos is visible in rs.
AllInViewVisible(rs, pos) ==
    \A c \in Cells :
        (c[1] - pos[1]) * (c[1] - pos[1]) + (c[2] - pos[2]) * (c[2] - pos[2]) <= 16
            => rs[c].is_visible

\* A step in which the player moves: _handle_movement, or the relocation
\* after fleeing.
MoveStep ==
    /\ player_pos' # player_pos
    /\ pc' = "ready"
    /\ \/ \E d \in Directions : HandleMovement(d)
       \/ HandleCombatEnd("fled")

\* C5: the start room is visible after generation; after every successful
\* move every in-bounds room with dx*dx + dy*dy <= 16 from the player's new
\* cell is visible; and a visible room of a dungeon stays visible.
C5_Visibility ==
    /\ [](Built => rooms[StartCell].is_visible)
    /\ [][MoveStep => AllInViewVisible(rooms', player_pos')]_vars
    /\ [][Built /\ pc' = "ready" =>
            \A c \in Cells : rooms[c].is_visible => rooms'[c].is_visible]_vars

\* A move has revealed a room that generation left hidden, while another
\* room is still hidden.
C5_Witness ==
    /\ Built
    /\ player_pos # StartCell
    /\ rooms[<<Size - 1, Size - 1>>].is_visible
    /\ AllInViewVisible(rooms, player_pos)
    /\ \E c \in Cells : ~rooms[c].is_visible

\* The rooms at maximum Manhattan distance from cell pos.
Farthest(pos) ==
    {c \in Cells : \A c2 \in Cells :
        calculate_manhattan_distance(c2, pos) <= calculate_manhattan_distance(c, pos)}

\* The first room of S in row-major scan order.
FirstInScan(S) == CHOOSE c \in S : \A c2 \in S : ScanIndex(c) <= ScanIndex(c2)

EndRooms(rs) == {c \in Cells : rs[c].is_end_room}

\* C6 as stated: in every generated dungeon exactly one room has is_end_room,
\* and it is the first room in row-major scan order among those at maximum
\* Manhattan distance from the start cell (0,0).
C6_EndRoomFromStartCell ==
    Built => EndRooms(rooms) = {FirstInScan(Farthest(StartCell))}

\* C6, amended: generation marks exactly one room as the end room, the first
\* in row-major scan order among those at maximum Manhattan distance from the
\* player's position at generation, and no later operation on the dungeon
\* changes which room is the end room.
C6_EndRoom ==
    /\ [][pc = "end_room" /\ pc' = "ready" =>
            EndRooms(rooms') = {FirstInScan(Farthest(player_pos))}]_vars
    /\ [][Built /\ pc' = "ready" => EndRooms(rooms') = EndRooms(rooms)]_vars

\* A dungeon generated around a player who does not start at (0,0), with two
\* rooms tied for the maximum distance, after the player has moved.
C6_Witness ==
    /\ Built
    /\ Cardinality(Farthest(ClampPos(<<-1, 2>>))) = 2
    /\ EndRooms(rooms) = {FirstInScan(Farthest(ClampPos(<<-1, 2>>)))}
    /\ player_pos \notin {StartCell, ClampPos(<<-1, 2>>)}
    /\ \A c \in Cells : rooms[c].is_visible

\* C7: is_complete() is true iff the room at player_pos is the end room, it
\* is cleared, and visible rooms / (size*size) >= 75%.
C7_IsComplete ==
    Built =>
        (is_complete(rooms, player_pos) <=>
            /\ player_pos \in EndRooms(rooms)
            /\ rooms[player_pos].is_cleared
            /\ 4 * Cardinality({c \in Cells : rooms[c].is_visible})
                    >= 3 * Cardinality(Cells))

\* The fight in the end room is won with enough rooms visible: the dungeon
\* is complete.
C7_Witness ==
    /\ Built
    /\ game_state = "playing"
    /\ is_complete(rooms, player_pos)

----------------------------------------------------------------------------
(* Properties of the combatants *)

\* C8: current_health stays within [0, max_health] after any sequence of
\* take_damage and heal calls, and a call with a negative amount leaves
\* current_health unchanged.
C8_HealthInRange ==
    /\ 0 <= health /\ health <= max_health
    /\ last_call.amount < 0 => health = last_call.before

\* A blow larger than the health left has been clamped at 0.
C8_Witness ==
    /\ last_call.op = "take_damage"
    /\ last_call.amount > last_call.before
    /\ last_call.before > 0
    /\ health = 0

\* C9: take_damage(d) with d >= 0 sets current_health to max(0, old - d),
\* which is old - d when d <= old, and returns true iff the new
\* current_health is > 0.
C9_TakeDamage ==
    (last_call.op = "take_damage" /\ last_call.amount >= 0) =>
        /\ health = IF last_call.amount <= last_call.before
                    THEN last_call.before - last_call.amount
                    ELSE 0
        /\ last_call.alive <=> health > 0

\* A blow of exactly the health left: the combatant is at 0 and take_damage
\* returned false.
C9_Witness ==
    /\ last_call.op = "take_damage"
    /\ last_call.amount = last_call.before
    /\ last_call.amount > 0
    /\ ~last_call.alive

\* C10: heal(a) with a >= 0 sets current_health to min(max_health, old + a)
\* and returns new - old, which lies in [0, a]; heal with a negative amount
\* returns 0 and changes nothing.
C10_Heal ==
    last_call.op = "heal" =>
        IF last_call.amount >= 0
        THEN /\ health = IF last_call.before + last_call.amount <= max_health
                         THEN last_call.before + last_call.amount
                         ELSE max_health
             /\ last_call.healed = health - last_call.before
             /\ 0 <= last_call.healed /\ last_call.healed <= last_call.amount
        ELSE last_call.healed = 0 /\ health = last_call.before

\* A heal near the cap: less was healed than asked for.
C10_Witness ==
    /\ last_call.op = "heal"
    /\ last_call.healed > 0
    /\ last_call.healed < last_call.amount
    /\ health = max_health

----------------------------------------------------------------------------
(* Properties of the Character's progression *)

\* C11: a new Character has tier 1 and xp 0; add_xp(n) with n >= 0 raises xp
\* by exactly n, level-up or not; add_xp(n) with n < 0 leaves xp and tier
\* unchanged; xp is >= 0 and never decreases.
C11_Xp ==
    /\ [](result = NoResult => character.tier = 1 /\ character.xp = 0)
    /\ [](result.op = "add_xp" =>
            IF result.amount >= 0
            THEN character.xp = result.before.xp + result.amount
            ELSE /\ character.xp = result.before.xp
                 /\ character.tier = result.before.tier)
    /\ [](character.xp >= 0)
    /\ [][character'.xp >= character.xp]_vars

\* A grant that levelled the character up, after an earlier rejected one.
C11_Witness ==
    /\ result.op = "add_xp"
    /\ result.amount > 0
    /\ character.tier = result.before.tier + 1
    /\ character.xp = result.before.xp + result.amount

\* The claim's condition for add_xp(n), n >= 0, to advance the tier of the
\* character b it is called on.
Advances(b, n) ==
    /\ get_tier_data(b.tier + 1) # None
    /\ b.xp + n >= get_tier_data(b.tier + 1).min_xp

\* C12: an add_xp call advances the tier by exactly one if the xp after the
\* grant is >= the min_xp of tier + 1 and that tier is in the catalogue, by
\* zero otherwise; on advancing, current_health becomes
\* floor(new max_health * old current_health / old max_health), within
\* [0, new max_health].
C12_LevelUp ==
    (result.op = "add_xp" /\ result.amount >= 0) =>
        LET b == result.before IN
        IF Advances(b, result.amount)
        THEN /\ character.tier = b.tier + 1
             /\ character.current_health =
                    (character.max_health * b.current_health) \div b.max_health
             /\ 0 <= character.current_health
             /\ character.current_health <= character.max_health
        ELSE character.tier = b.tier

----------------------------------------------------------------------------
(* Properties of the resolver *)

\* The last call was process_turn with an action of this type.
TurnOf(type) == result.op = "process_turn" /\ result.action.type = type

\* The defender of the last process_turn call, as it is now.
DefenderNow == IF result.actor = "character" THEN enemy ELSE character
\* The attacker of the last process_turn call, as it is now.
AttackerNow == IF result.actor = "character" THEN character ELSE enemy

\* C13: for every roll in 1..20 and every attacker and defender: roll 20 hits
\* and is a critical; roll 1 misses; for rolls 2..19 the attack hits iff
\* roll + attacker total attack + (2 if attacker.is_player else 0)
\* >= 10 + defender total defense, and is never a critical.
C13_HitResolution ==
    TurnOf("attack") =>
        LET a == result.attacker
            d == result.defender
            hit == result.ret.success
            crit == result.ret.roll_info.is_crit
        IN CASE result.roll = 20 -> hit /\ crit
             [] result.roll = 1 -> ~hit
             [] OTHER ->
                /\ hit <=> result.roll + calculate_total_attack(a)
                              + (IF a.is_player THEN 2 ELSE 0)
                           >= 10 + calculate_total_defense(d)
                /\ ~crit

\* The player's bonus makes the difference: the roll meets the defence class
\* only with the +2.
C13_Witness ==
    /\ TurnOf("attack")
    /\ result.roll \in 2..19
    /\ result.attacker.is_player
    /\ result.ret.success
    /\ result.roll + calculate_total_attack(result.attacker)
            < 10 + calculate_total_defense(result.defender)

\* max(1, trunc(m * c * max(1, A + w - D/2))) for attacker a, defender d, a
\* critical or not, and the weapon draw w = draw / 2.
ClaimedDamage(a, d, is_crit, draw) ==
    LET twice == Max(2, 2 * calculate_total_attack(a) + draw
                            - calculate_total_defense(d))
        c == IF is_crit THEN 2 ELSE 1
    IN IF a.is_player
       THEN Max(1, (12 * c * twice) \div 20)
       ELSE Max(1, (c * twice) \div 2)

\* C14: the damage of a hit is max(1, trunc(m * c * max(1, A + w - D/2)));
\* a player with base_attack 5 and no weapon hitting a defence of 4 without a
\* critical deals exactly 3; the damage is what take_damage is given and what
\* damage_dealt reports.
C14_Damage ==
    (TurnOf("attack") /\ result.ret.success) =>
        LET a == result.attacker
            d == result.defender
            damage == ClaimedDamage(a, d, result.ret.roll_info.is_crit, result.draw)
        IN /\ result.ret.damage_dealt = damage
           /\ DefenderNow.current_health = Max(0, d.current_health - damage)
           /\ (/\ a.is_player /\ a.base_attack = 5 /\ a.equipped_weapon = None
               /\ calculate_total_defense(d) = 4
               /\ ~result.ret.roll_info.is_crit) => result.ret.damage_dealt = 3

\* The scenario of the claim: 5 attack, no weapon, defence 4, no critical.
C14_Witness ==
    /\ TurnOf("attack")
    /\ result.ret.success
    /\ ~result.ret.roll_info.is_crit
    /\ result.attacker.is_player
    /\ result.attacker.equipped_weapon = None
    /\ calculate_total_defense(result.defender) = 4
    /\ result.ret.damage_dealt = 3
    /\ enemy.current_health = result.defender.current_health - 3

\* C15: every attack that hits deals damage >= 1, however large the
\* defender's defense, so a hit on a defender with current_health > 0
\* strictly decreases that health.
C15_MinDamage ==
    (TurnOf("attack") /\ result.ret.success) =>
        /\ result.ret.damage_dealt >= 1
        /\ result.defender.current_health > 0 =>
                DefenderNow.current_health < result.defender.current_health

\* A hit whose attack is below half the defence: the floor of 1 applies.
C15_Witness ==
    /\ TurnOf("attack")
    /\ result.ret.success
    /\ 2 * calculate_total_attack(result.attacker) + result.draw
            < calculate_total_defense(result.defender)
    /\ result.defender.current_health > 0
    /\ DefenderNow.current_health < result.defender.current_health

\* C16: a flee succeeds (fled and success both true) iff roll + (2 if the
\* actor is_player else 0) >= 10; a failed flee changes no combatant's health,
\* inventory or money and no dungeon state, and returns only a log message;
\* one call rolls once.
C16_Flee ==
    TurnOf("flee") =>
        LET fled == result.roll + (IF result.attacker.is_player THEN 2 ELSE 0) >= 10
        IN /\ result.ret.fled <=> fled
           /\ result.ret.success <=> fled
           /\ result.ret.damage_dealt = 0
           /\ Len(result.ret.messages) = 1
           /\ AttackerNow = result.attacker
           /\ DefenderNow = result.defender
           /\ pc = "none" /\ rooms = <<>> /\ game_state = "menu"

\* The player escapes on an 8, which only the +2 lifts to the difficulty.
C16_Witness ==
    /\ TurnOf("flee")
    /\ result.actor = "character"
    /\ result.roll = 8
    /\ result.ret.fled
    /\ character.current_health > 0
    /\ enemy.current_health > 0

\* C18: process_turn with an action type other than 'attack', 'use_item' or
\* 'flee' returns success = false, damage_dealt = 0, fled = false and a
\* message reporting the failure, and changes neither participant.
C18_InvalidAction ==
    (/\ result.op = "process_turn"
     /\ result.action.type \notin {"attack", "use_item", "flee"}) =>
        /\ ~result.ret.success
        /\ result.ret.damage_dealt = 0
        /\ ~result.ret.fled
        /\ result.ret.messages = <<"An error occurred processing the turn">>
        /\ AttackerNow = result.attacker
        /\ DefenderNow = result.defender

\* An unknown action by a character who could have hurt the enemy and has
\* items to lose.
C18_Witness ==
    /\ result.op = "process_turn"
    /\ result.action.type = "defend"
    /\ result.actor = "character"
    /\ character.current_health > 0
    /\ enemy.current_health > 0
    /\ character.inventory # <<>>

\* C19: check_combat_status reports the combat ended iff the character's or
\* the enemy's current_health is <= 0; the outcome is 'defeat' whenever the
\* character's is (also when both are), 'victory' when only the enemy's is.
C19_CombatStatus ==
    LET st == check_combat_status(character, enemy) IN
    /\ st.ended <=> (character.current_health <= 0 \/ enemy.current_health <= 0)
    /\ character.current_health <= 0 => st.outcome = "defeat"
    /\ (character.current_health > 0 /\ enemy.current_health <= 0) =>
            st.outcome = "victory"
    /\ (character.current_health > 0 /\ enemy.current_health > 0) =>
            st = [ended |-> FALSE, outcome |-> ""]

\* Both at zero after a turn: the outcome is defeat.
C19_Witness ==
    /\ result.op = "process_turn"
    /\ character.current_health = 0
    /\ enemy.current_health = 0
    /\ check_combat_status(character, enemy).outcome = "defeat"

\* C20: when either participant's current_health is <= 0, process_turn
\* changes neither participant's health, inventory or money and returns
\* success = false.
C20_EndedCombat ==
    (/\ result.op = "process_turn"
     /\ (result.attacker.current_health <= 0 \/ result.defender.current_health <= 0)) =>
        /\ AttackerNow = result.attacker
        /\ DefenderNow = result.defender
        /\ ~result.ret.success

----------------------------------------------------------------------------
(* Properties of the flight from an encounter *)

----------------------------------------------------------------------------
(* Properties of the encounter *)

\* What distribute_rewards has to leave of character b for enemy e and
\* the drops: xp_value more experience, the copper more money, one more
\* inventory entry per drop the catalogue resolves.
Rewarded(b, e, drops, c) ==
    /\ c.xp = b.xp + e.xp_value
    /\ c.money = b.money + DroppedCopper(drops)
    /\ c.inventory = b.inventory
            \o [k \in 1..Len(ResolvedNames(drops)) |->
                    get_item(ResolvedNames(drops)[k])]

\* C21: when the combat window has ended an encounter, a victory has raised
\* the player's xp by enemy.xp_value and the money by the copper of the
\* drop and appended one item per drop the catalogue resolves, skipping the
\* names it does not know; a defeat or a flight has granted nothing; and the
\* window has handed rewards out exactly once if the encounter ended in
\* victory and never otherwise.
C21_Rewards ==
    (window.open /\ window.combat_ended) =>
        /\ result.op = "handle_combat_end"
        /\ IF result.outcome = "victory"
           THEN Rewarded(result.before, result.enemy, result.drops, character)
           ELSE character = result.before
        /\ window.rewarded = IF "victory" \in window.close THEN 1 ELSE 0

----------------------------------------------------------------------------
(* Properties of the merchant *)

\* C22: buy_item(player, name) returns false and leaves the player's money
\* and inventory and the stock as they were when no stocked item has the
\* name or the player has less money than the stocked price of the item
\* found; otherwise it returns true, the money goes down by exactly that
\* price, the inventory grows by exactly one copy of the item, and the stock
\* loses exactly one unit of that name.
C22_BuyItem ==
    result.op = "buy_item" =>
        LET b == result.before
            st == result.stock
            i == FirstNamed(st, result.name)
        IN IF i = 0 \/ b.money < st[i].price_copper
           THEN ~result.ret /\ character = b /\ merchant = st
           ELSE /\ result.ret
                /\ character = [b EXCEPT !.money = @ - st[i].price_copper,
                                         !.inventory = Append(@, st[i])]
                /\ \E k \in 1..Len(st) :
                        st[k].name = result.name /\ merchant = Pop(st, k)

\* A purchase went through at a merchant who had two items of that name, and
\* the player cannot afford the one that is left.
C22_Witness ==
    /\ result.op = "buy_item"
    /\ result.ret
    /\ Len(result.stock) = 2
    /\ result.stock[1].name = result.stock[2].name
    /\ ~can_afford(character, merchant[1].price_copper)

\* C23: sell_item(player, item) returns false and changes nothing when the
\* item is not in the player's inventory; otherwise it returns true, the
\* money goes up by max(1, floor(price * 0.5)) of the item sold, exactly
\* that record leaves the inventory, every other record staying, those of
\* the same name included, and the stock is unchanged.
C23_SellItem ==
    result.op = "sell_item" =>
        LET b == result.before
            item == result.item
        IN IF \A k \in 1..Len(b.inventory) : b.inventory[k] # item
           THEN ~result.ret /\ character = b /\ merchant = result.stock
           ELSE /\ result.ret
                /\ character.money = b.money + Max(1, item.price_copper \div 2)
                /\ \E k \in 1..Len(b.inventory) :
                        /\ b.inventory[k] = item
                        /\ character.inventory = Pop(b.inventory, k)
                /\ merchant = result.stock

\* The last call sold back the very item the call before it had bought.
SoldBack == result.op = "sell_item" /\ result.ret /\ result.purchase.op = "buy_item"

\* What that purchase cost and what the sale credited.
BuyPrice == Bought(result.purchase).price_copper
SellPrice == character.money - result.before.money

\* C24 as stated: buying an item and selling it back never leaves the player
\* with more money than before the purchase, and the sell price is at most
\* half of the buy price, both at least 1.
C24_BuySellHalf ==
    SoldBack =>
        /\ character.money <= result.purchase.before.money
        /\ BuyPrice >= 1 /\ SellPrice >= 1
        /\ 2 * SellPrice <= BuyPrice

\* C24: buying an item and selling it back never leaves the player with more
\* money than before the purchase; both prices are at least 1 and the sell
\* price is max(1, floor(buy price / 2)): at most half of the buy price,
\* except at a buy price of 1, where the sale returns the whole copper.
C24_BuySell ==
    SoldBack =>
        /\ character.money <= result.purchase.before.money
        /\ BuyPrice >= 1 /\ SellPrice >= 1
        /\ SellPrice = Max(1, BuyPrice \div 2)
        /\ (2 * SellPrice <= BuyPrice \/ BuyPrice = 1)

\* An item bought for 1 copper was sold back.
C24_Witness == SoldBack /\ BuyPrice = 1

\* The base price of an item: the price of its row in the catalogue.
BasePrice(item) == (CHOOSE i \in all_items : i.name = item.name).price_copper

\* C25: what a sale credits does not depend on the variation rolled when the
\* item was stocked: an item bought from the merchant sells back for
\* max(1, floor(base price * 0.5)), so the base-100 item stocked at 120
\* sells back for 50.
C25_SellBasePrice ==
    SoldBack => SellPrice = Max(1, BasePrice(result.item) \div 2)

\* C26: the player's money is never negative, whatever sequence of
\* purchases, sales, combat rewards, treasures and dungeon completions
\* follows a start with a non-negative balance.
C26_MoneyNonNegative == character.money >= 0

\* A purchase has just been refused to a player who has money, but less than
\* the price of the item asked for.
C26_Witness ==
    /\ result.op = "buy_item"
    /\ ~result.ret
    /\ FirstNamed(merchant, result.name) # 0
    /\ character.money > 0
    /\ character.money < merchant[FirstNamed(merchant, result.name)].price_copper

----------------------------------------------------------------------------
(* Properties of saving and loading *)

\* C27: reconstructing a Character, an Enemy, a Room or a Dungeon of the
\* game from its snapshot and snapshotting the object again gives the first
\* snapshot back, field for field.
C27_RoundTrip ==
    result.op = "round_trip" => result.second = result.first

\* A save without a required key, or with a required value of another type
\* than its constructor takes: a name that is no str, an age that is no int,
\* rooms that are no list, a player_pos that is no pair, an enemy record no
\* Enemy can be built from.
Malformed(save) ==
    \/ ~(required_keys \subseteq save.keys)
    \/ ~(player_keys \subseteq save.player_keys)
    \/ ~(dungeon_keys \subseteq save.dungeon_keys)
    \/ save.name_type # "str"
    \/ save.age_type # "int"
    \/ save.rooms_type # "list"
    \/ Len(save.dungeon.player_pos) # 2
    \/ \E c \in Cells : \E k \in 1..Len(save.dungeon.rooms[c].enemies) :
            EnemyFromDict(save.dungeon.rooms[c].enemies[k]) = Raised

\* C28: a save that misses a required field, or holds a value of the wrong
\* type in one, is rejected as a whole: _load_save_file builds neither a
\* Character nor a Dungeon from it.
C28_RejectedWhole ==
    (result.op = "load_save_file" /\ Malformed(result.save))
        => (result.built.player = Raised /\ result.built.dungeon = Raised)

\* C29: a load that fails, at whichever step, leaves the live player, the
\* live dungeon and the game state as they were before it.
C29_AtomicLoad ==
    (result.op = "load_save_file" /\ result.built.dungeon = Raised)
        => result.after = result.before

----------------------------------------------------------------------------
(* Properties of the enemy of a room *)

\* The enemy of the room has been hurt and lives.
Wounded(e) == 0 < e.current_health /\ e.current_health < e.health

\* C30 as stated: an encounter that ends in 'victory' leaves the room of the
\* player without enemies and cleared, and an encounter the player has fled
\* from leaves the wounded enemy no longer in that room: its list is empty,
\* or holds an enemy at full health.
C30_Discarded ==
    [][/\ HandleCombatEnd("victory") =>
            /\ rooms'[player_pos].enemies = <<>>
            /\ rooms'[player_pos].is_cleared
       /\ (HandleCombatEnd("fled") /\ Wounded(enemy)) =>
            \/ rooms'[player_pos].enemies = <<>>
            \/ enemy'.current_health = enemy'.health]_vars

\* C30, amended: an encounter that ends in 'victory' leaves the room of the
\* player without enemies and cleared; an encounter the player has fled from
\* leaves the enemy in its room, uncleared as before and with the
\* current_health the fight left it, and the next encounter in that room
\* faces this same enemy.
C30_DiscardedOnVictory ==
    [][/\ HandleCombatEnd("victory") =>
            /\ rooms'[player_pos].enemies = <<>>
            /\ rooms'[player_pos].is_cleared
       /\ HandleCombatEnd("fled") =>
            /\ rooms'[player_pos].enemies = rooms[player_pos].enemies
            /\ rooms'[player_pos].is_cleared = rooms[player_pos].is_cleared
            /\ enemy' = enemy
       /\ (~window.open /\ window'.open) =>
            /\ rooms'[player_pos'].enemies # <<>>
            /\ enemy' = enemy]_vars

\* The player has fled from the wounded enemy and has walked back into its
\* room: the combat window has just opened on it.
C30_Witness ==
    /\ window = NewWindow
    /\ game_state = "combat"
    /\ player_pos = EnemyCell
    /\ result.op = "handle_combat_end"
    /\ result.outcome = "fled"
    /\ Wounded(enemy)

----------------------------------------------------------------------------
(* Properties of the game as it is played *)

\* The room the player has moved into, as the move found it, holds an enemy
\* and is not cleared; has a treasure not looted; has a merchant not visited.
Entered == move_player(rooms, player_pos, CHOOSE d \in Directions :
                move_player(rooms, player_pos, d).ret
                /\ move_player(rooms, player_pos, d).pos = player_pos').rooms[player_pos']
EnemyWaits == Entered.enemies # <<>> /\ ~Entered.is_cleared
TreasureWaits == Entered.has_treasure /\ ~Entered.treasure_looted
MerchantWaits == Entered.has_merchant /\ ~Entered.merchant_visited

\* The three room events, as a step shows them: the combat window opens on
\* the enemy; the treasure is handed out and marked looted; the merchant
\* window opens.
CombatStarts == game_state' = "combat" /\ window' = NewWindow /\ ~window.open
TreasureHandled ==
    /\ rooms'[player_pos'].treasure_looted /\ ~Entered.treasure_looted
    /\ character'.money > character.money
ShopOpens == game_state' = "shopping" /\ dialog' = "merchant" /\ dialog = "none"

\* The player has moved, within a dungeon that goes on.
Moved == pc = "ready" /\ pc' = "ready" /\ player_pos' # player_pos
            /\ \E d \in Directions : \E copper \in TreasureCopper(tier) :
               \E names \in TreasureNames : Movement(d, copper, names)

\* C31: a successful move in state 'playing' triggers exactly one room event
\* by priority: the combat when the room holds an enemy and is not cleared,
\* else the treasure when the room has one that is not looted, which marks
\* it looted, so that no treasure is handed out twice, else the merchant
\* when the room has one not visited, else nothing; and no move is made in
\* another state than 'playing'.
C31_RoomEvent ==
    [][/\ Moved =>
            /\ game_state = "playing"
            /\ CombatStarts <=> EnemyWaits
            /\ TreasureHandled <=> (~EnemyWaits /\ TreasureWaits)
            /\ ShopOpens <=> (~EnemyWaits /\ ~TreasureWaits /\ MerchantWaits)
       /\ (pc = "ready" /\ pc' = "ready") =>
            /\ \A c \in Cells : rooms[c].treasure_looted => rooms'[c].treasure_looted
            /\ character'.money > character.money => Moved /\ TreasureHandled
       /\ (player_pos' # player_pos /\ game_state # "playing") =>
            HandleCombatEnd("fled")]_vars

\* The player stands in a room that holds an enemy, a treasure and the
\* merchant, has won the fight, found the treasure on the next visit and
\* the merchant on the one after.
C31_Witness ==
    /\ rooms[player_pos].has_treasure /\ rooms[player_pos].treasure_looted
    /\ rooms[player_pos].is_cleared
    /\ dialog = "merchant"
    /\ character.money > 100

----------------------------------------------------------------------------
(* Properties of the rooms a generated dungeon hands out *)

MerchantRooms(rs) == {c \in Cells : rs[c].has_merchant}
TreasureRooms(rs) == {c \in Cells : rs[c].has_treasure}

\* C32 as stated: every generated dungeon has exactly one merchant room, and
\* that room is not the start room, holds no enemy and has no treasure.
C32_OneMerchant ==
    Built =>
        /\ Cardinality(MerchantRooms(rooms)) = 1
        /\ \A c \in MerchantRooms(rooms) :
                c # StartCell /\ rooms[c].enemies = <<>> /\ ~rooms[c].has_treasure

\* C32, amended: a generated dungeon has exactly one merchant room when one
\* of its rooms other than the start holds no enemy and no treasure, and no
\* merchant room otherwise; a merchant room is not the start room, holds no
\* enemy and has no treasure.
C32_MerchantIfRoom ==
    Built =>
        /\ Cardinality(MerchantRooms(rooms)) =
                IF \E c \in Cells \ {StartCell} :
                        rooms[c].enemies = <<>> /\ ~rooms[c].has_treasure
                THEN 1 ELSE 0
        /\ \A c \in MerchantRooms(rooms) :
                c # StartCell /\ rooms[c].enemies = <<>> /\ ~rooms[c].has_treasure

\* A generated dungeon without a merchant: every room but the start holds an
\* enemy or a treasure.
C32_Witness ==
    /\ Built
    /\ MerchantRooms(rooms) = {}
    /\ TreasureRooms(rooms) # {}

\* C33 as stated: in a generated dungeon of tier t between 1 and t rooms
\* have a treasure, none of them the start room or a room with an enemy,
\* and the start room holds no enemy.
C33_Treasures ==
    Built =>
        /\ Cardinality(TreasureRooms(rooms)) \in 1..tier
        /\ \A c \in TreasureRooms(rooms) : c # StartCell /\ rooms[c].enemies = <<>>
        /\ rooms[StartCell].enemies = <<>>

\* C33, amended: in a generated dungeon of tier t at most t rooms have a
\* treasure, at least one of them when a room other than the start holds no
\* enemy, and never more than there are such rooms; no treasure room is the
\* start room or holds an enemy, and the start room holds no enemy.
C33_TreasuresIfRoom ==
    Built =>
        LET free == {c \in Cells \ {StartCell} : rooms[c].enemies = <<>>}
        IN /\ Cardinality(TreasureRooms(rooms)) \in Min(1, Cardinality(free))..tier
           /\ TreasureRooms(rooms) \subseteq free
           /\ rooms[StartCell].enemies = <<>>

\* A generated dungeon without a treasure: every room but the start holds an
\* enemy.
C33_Witness ==
    /\ Built
    /\ TreasureRooms(rooms) = {}
    /\ \A c \in Cells \ {StartCell} : rooms[c].enemies # <<>>

----------------------------------------------------------------------------
(* Properties of the bonus draws of get_drops *)

\* C34: the bonus loop of get_drops makes at most tier extra draws.
C34_ExtraDraws == result.op = "get_drops" => result.extra <= tier

\* get_drops returns: the bonus loop ends.
C34_Terminates ==
    (result.op = "get_drops") ~> (result.op = "get_drops" /\ result.stage = "done")

----------------------------------------------------------------------------
(* Properties of the states of a played game *)

\* C35: every change of player_pos into a room that holds an enemy and is
\* not cleared, the relocation after a flight included, starts the combat
\* with that enemy: the player does not stand there in state 'playing'.
C35_CombatOnEntry ==
    [][(/\ pc = "ready" /\ pc' = "ready"
        /\ player_pos' # player_pos
        /\ rooms'[player_pos'].enemies # <<>>
        /\ ~rooms'[player_pos'].is_cleared)
       => (game_state' = "combat" /\ window' = NewWindow)]_vars

\* C36: when the inventory window or the merchant window is closed the game
\* state is 'playing' again, so that the next movement is processed.
C36_PlayingAfterClose ==
    [][(dialog # "none" /\ dialog' = "none") => game_state' = "playing"]_vars

\* is_cleared is assigned in one place, the victory of _handle_combat_end, and
\* a combat starts only on entering a room that holds an enemy: within one
\* dungeon a room that holds no enemy and is not cleared stays that way.
C37_NeverCleared ==
    [][\A c \in Cells :
        (/\ pc = "ready" /\ pc' = "ready"
         /\ rooms[c].enemies = <<>> /\ ~rooms[c].is_cleared)
        => (rooms'[c].enemies = <<>> /\ ~rooms'[c].is_cleared)]_vars

\* C37: every generated dungeon can be completed, whichever rooms received
\* the enemies: some moves and combat outcomes make is_complete() true. With
\* C37_NeverCleared this needs an end room that is cleared or holds an enemy
\* to win against.
C37_Completable ==
    Built => \A c \in EndRooms(rooms) : rooms[c].is_cleared \/ rooms[c].enemies # <<>>

\* C38: once the completion predicate is true the completion of the dungeon
\* is handled before the next move of the player is processed: no move is
\* made out of a completed dungeon that goes on.
C38_CompletionBeforeMove ==
    [][(/\ pc = "ready"
        /\ is_complete(rooms, player_pos)
        /\ player_pos' # player_pos
        /\ \E d \in Directions : HandleMovement(d))
       => pc' = "replaced"]_vars

----------------------------------------------------------------------------
(* Properties of the turns of an encounter *)

\* A player action of the combat window; an attack of the enemy.
PlayerAction ==
    \/ \E roll \in Rolls : \E draw \in WeaponDraws(character) :
       \E drops \in DropArgs(enemy) : HandleAttack(roll, draw, drops)
    \/ \E roll \in Rolls : HandleFlee(roll)
    \/ \E item \in usable_items(character) : \E drops \in DropArgs(enemy) :
            UseSelectedItem(item, drops)
EnemyAttack == \E roll \in Rolls : \E drops \in DropArgs(enemy) : ProcessEnemyTurn(roll, drops)

\* C39: the player's actions and the enemy's attacks alternate. No action of
\* the player is accepted while a turn of the enemy is pending; a player
\* action that does not end the combat leaves exactly one callback pending,
\* the enemy's turn or, after a flight, the end of the combat; and no attack
\* of either side is applied once the combat has ended.
C39_Alternation ==
    [][/\ PlayerAction => window.timers = {}
       /\ (PlayerAction /\ ~window'.combat_ended /\ ~window'.buttons)
            => window'.timers \in {{"process_enemy_turn"}, {"handle_combat_end"}}
       /\ EnemyAttack => (window'.timers = {} /\ (window'.buttons \/ window'.combat_ended))
       /\ window.combat_ended => ~(PlayerAction \/ EnemyAttack)]_vars

----------------------------------------------------------------------------
(* Properties of the player's life *)

\* C40: the game is in state 'playing' only with a player whose
\* current_health is above 0: nothing is processed for a character who was
\* defeated.
C40_AlivePlaying == game_state = "playing" => character.current_health > 0

============================================================================
